---- MODULE Spec2Model ----
(***************************************************************************)
(* Model of the correlation pipeline of polymarket-network:                *)
(*   src/js/modules/graph.js  alignByTimestamp, calculateLogReturns,       *)
(*                            calculateVariance, calculateCorrelation      *)
(*   src/js/modules/api.js    loadData (history fetch, pair scan, capper)  *)
(*                                                                         *)
(* JavaScript numbers are IEEE-754 binary64 values.  The numeric kernel    *)
(* is modelled with binary64 arithmetic (53-bit significand, round to      *)
(* nearest, ties to even), because the guards of the kernel                *)
(* (denominator === 0, variance < MIN_VARIANCE, |r| > 0.5) are decided by  *)
(* the rounded values.  TLC integers are 32 bits wide, so significands     *)
(* are kept as little-endian sequences of 15-bit limbs.                    *)
(***************************************************************************)
EXTENDS Integers, Sequences, FiniteSets, TLC

(***************************************************************************)
(* Natural numbers of arbitrary size: little-endian limb sequences with    *)
(* no leading zero limb; <<>> is zero.                                     *)
(***************************************************************************)
LimbBits == 15
Limb == 2 ^ LimbBits

RECURSIVE BNorm(_)
BNorm(a) ==
    IF Len(a) = 0 THEN a
    ELSE IF a[Len(a)] = 0 THEN BNorm(SubSeq(a, 1, Len(a) - 1))
    ELSE a

BLimb(a, i) == IF i <= Len(a) THEN a[i] ELSE 0

RECURSIVE BAddFrom(_, _, _, _)
BAddFrom(a, b, i, c) ==
    IF i > Len(a) /\ i > Len(b)
    THEN (IF c = 0 THEN <<>> ELSE <<c>>)
    ELSE LET s == BLimb(a, i) + BLimb(b, i) + c
         IN  <<s % Limb>> \o BAddFrom(a, b, i + 1, s \div Limb)

BAdd(a, b) == BAddFrom(a, b, 1, 0)

RECURSIVE BSubFrom(_, _, _, _)
BSubFrom(a, b, i, c) ==
    IF i > Len(a) THEN <<>>
    ELSE LET s == a[i] - BLimb(b, i) - c
         IN  IF s < 0
             THEN <<s + Limb>> \o BSubFrom(a, b, i + 1, 1)
             ELSE <<s>> \o BSubFrom(a, b, i + 1, 0)

\* a - b, for a >= b
BSub(a, b) == BNorm(BSubFrom(a, b, 1, 0))

RECURSIVE BCmpFrom(_, _, _)
BCmpFrom(a, b, i) ==
    IF i = 0 THEN 0
    ELSE IF a[i] < b[i] THEN -1
    ELSE IF a[i] > b[i] THEN 1
    ELSE BCmpFrom(a, b, i - 1)

\* -1, 0, 1 as a < b, a = b, a > b
BCmp(a, b) ==
    IF Len(a) < Len(b) THEN -1
    ELSE IF Len(a) > Len(b) THEN 1
    ELSE BCmpFrom(a, b, Len(a))

RECURSIVE BMulSmallFrom(_, _, _, _)
BMulSmallFrom(a, k, i, c) ==
    IF i > Len(a)
    THEN (IF c = 0 THEN <<>> ELSE <<c>>)
    ELSE LET s == a[i] * k + c
         IN  <<s % Limb>> \o BMulSmallFrom(a, k, i + 1, s \div Limb)

\* a * k, for 0 <= k < Limb
BMulSmall(a, k) == IF k = 0 THEN <<>> ELSE BMulSmallFrom(a, k, 1, 0)

RECURSIVE BMulFrom(_, _, _)
BMulFrom(a, b, i) ==
    IF i > Len(b) THEN <<>>
    ELSE BAdd(BMulSmall(a, b[i]), <<0>> \o BMulFrom(a, b, i + 1))

BMul(a, b) == BNorm(BMulFrom(a, b, 1))

BZeros(n) == [i \in 1..n |-> 0]

\* a * 2^n
BShl(a, n) ==
    IF Len(a) = 0 THEN a
    ELSE BZeros(n \div LimbBits) \o BMulSmall(a, 2 ^ (n % LimbBits))

RECURSIVE BDivSmallFrom(_, _, _, _)
BDivSmallFrom(a, d, i, r) ==
    IF i = 0 THEN <<>>
    ELSE LET s == r * Limb + a[i]
         IN  BDivSmallFrom(a, d, i - 1, s % d) \o <<s \div d>>

\* floor(a / 2^n)
BShr(a, n) ==
    IF n \div LimbBits >= Len(a) THEN <<>>
    ELSE LET hi == SubSeq(a, (n \div LimbBits) + 1, Len(a))
         IN  BNorm(BDivSmallFrom(hi, 2 ^ (n % LimbBits), Len(hi), 0))

BitLen(x) == CHOOSE k \in 0..LimbBits : x < 2 ^ k /\ (k = 0 \/ x >= 2 ^ (k - 1))

\* number of significant bits of a
BBits(a) == IF Len(a) = 0 THEN 0 ELSE LimbBits * (Len(a) - 1) + BitLen(a[Len(a)])

BOdd(a) == Len(a) > 0 /\ a[1] % 2 = 1

BOne == <<1>>

\* the number of a small integer n, 0 <= n < Limb * Limb
BFromInt(n) == BNorm(<<n % Limb, n \div Limb>>)

\* <<floor(r / d), r - d * floor(r / d)>>, for r < 2 * d
BDivBit(r, d) == IF BCmp(r, d) >= 0 THEN <<BOne, BSub(r, d)>> ELSE <<<<>>, r>>

\* binary long division: <<floor(r * 2^n / d), remainder>>, for r < d and
\* n >= 1; the n quotient bits are produced as the upper n - n \div 2 of
\* them followed by the lower n \div 2
BDivJoin(q, lower, n) == <<BAdd(BShl(q, n), lower[1]), lower[2]>>

RECURSIVE BDivBits(_, _, _)
BDivLower(upper, d, n) ==
    IF Len(upper[2]) = 0    \* no remainder: the lower bits are all 0
    THEN <<BShl(upper[1], n), <<>>>>
    ELSE BDivJoin(upper[1], BDivBits(upper[2], d, n), n)

BDivBits(r, d, n) ==
    IF n = 1 THEN BDivBit(BShl(r, 1), d)
    ELSE BDivLower(BDivBits(r, d, n - (n \div 2)), d, n \div 2)

\* <<floor(a * 2^n / d), remainder>>, for a < 2 * d and n >= 1
BDivScaled(a, d, n) == BDivLower(BDivBit(a, d), d, n)

\* cand is res with one more bit set: the bit stays when the square fits
BSqrtPick(a, res, cand) == IF BCmp(BMul(cand, cand), a) <= 0 THEN cand ELSE res

\* the largest number with a square of at most a among those that are res
\* with bits of hi down to lo added, for res * res <= a
RECURSIVE BSqrtBits(_, _, _, _)
BSqrtBits(a, res, hi, lo) ==
    IF Len(res) < 0 THEN res    \* (the test makes TLC evaluate res now)
    ELSE IF hi = lo THEN BSqrtPick(a, res, BAdd(res, BShl(BOne, hi)))
    ELSE BSqrtBits(a, BSqrtBits(a, res, hi, lo + ((hi - lo) \div 2) + 1),
                   lo + ((hi - lo) \div 2), lo)

\* floor(sqrt(a))
BSqrt(a) == BSqrtBits(a, <<>>, BBits(a) \div 2, 0)

(***************************************************************************)
(* binary64 values.  A finite non-zero value is (-1)^s * m * 2^e with      *)
(* 2^52 <= m < 2^53; zero has the empty significand (the sign of zero is   *)
(* not kept: no modelled code distinguishes -0 from 0); "nan" is NaN and   *)
(* "inf" is +-Infinity.  The exponent is not bounded: overflow and         *)
(* underflow do not occur for the magnitudes the model's inputs produce.   *)
(***************************************************************************)
SigBits == 53

FNaN == [k |-> "nan", s |-> 0, m |-> <<>>, e |-> 0]
FZero == [k |-> "num", s |-> 0, m |-> <<>>, e |-> 0]
FInf(s) == [k |-> "inf", s |-> s, m |-> <<>>, e |-> 0]
FNum(s, m, e) == [k |-> "num", s |-> s, m |-> m, e |-> e]

IsNaN(a) == a.k = "nan"
IsInf(a) == a.k = "inf"
IsZero(a) == a.k = "num" /\ Len(a.m) = 0

\* (-1)^s * (M + f) * 2^e rounded to nearest, ties to even, where 0 <= f < 1
\* and f > 0 iff sticky (sticky only with M of more than SigBits + 1 bits)
\* q1 is q or q + 1: q + 1 may need one bit more than the significand has
FCarry(s, q1, e) ==
    IF BBits(q1) > SigBits THEN FNum(s, BShr(q1, 1), e + 1) ELSE FNum(s, q1, e)

\* c orders the bits cut off against one half of the last kept place
FRoundUp(s, q, e, c, sticky) ==
    IF c > 0 \/ (c = 0 /\ (sticky \/ BOdd(q)))
    THEN FCarry(s, BAdd(q, BOne), e)
    ELSE FNum(s, q, e)

\* q is M without its sh lowest bits
FRoundCut(s, M, e, sticky, sh, q) ==
    FRoundUp(s, q, e + sh, BCmp(BSub(M, BShl(q, sh)), BShl(BOne, sh - 1)), sticky)

\* n is the number of bits of M
FRoundBits(s, M, e, sticky, n) ==
    IF n = 0 THEN FZero
    ELSE IF n <= SigBits
    THEN FNum(s, BShl(M, SigBits - n), e - (SigBits - n))
    ELSE FRoundCut(s, M, e, sticky, n - SigBits, BShr(M, n - SigBits))

FRound(s, M, e, sticky) == FRoundBits(s, M, e, sticky, BBits(M))

\* the binary64 value of a small non-negative integer
FromInt(n) == FRound(0, BFromInt(n), 0, FALSE)

FNeg(a) == IF a.k = "nan" \/ IsZero(a) THEN a ELSE [a EXCEPT !.s = 1 - a.s]

\* Math.abs
FAbs(a) == IF a.k = "nan" THEN a ELSE [a EXCEPT !.s = 0]

IntMin(m, n) == IF m < n THEN m ELSE n

\* (-1)^sa * Ma * 2^lo + (-1)^sb * Mb * 2^lo
FAddAligned(sa, Ma, sb, Mb, lo) ==
    IF sa = sb THEN FRound(sa, BAdd(Ma, Mb), lo, FALSE)
    ELSE IF BCmp(Ma, Mb) = 0 THEN FZero
    ELSE IF BCmp(Ma, Mb) > 0 THEN FRound(sa, BSub(Ma, Mb), lo, FALSE)
    ELSE FRound(sb, BSub(Mb, Ma), lo, FALSE)

\* a + b
FAdd(a, b) ==
    IF IsNaN(a) \/ IsNaN(b) THEN FNaN
    ELSE IF IsInf(a) THEN (IF IsInf(b) /\ b.s # a.s THEN FNaN ELSE a)
    ELSE IF IsInf(b) THEN b
    ELSE IF IsZero(a) THEN b
    ELSE IF IsZero(b) THEN a
    ELSE FAddAligned(a.s, BShl(a.m, a.e - IntMin(a.e, b.e)),
                     b.s, BShl(b.m, b.e - IntMin(a.e, b.e)), IntMin(a.e, b.e))

\* a - b
FSub(a, b) == FAdd(a, FNeg(b))

\* a * b
FMul(a, b) ==
    IF IsNaN(a) \/ IsNaN(b) THEN FNaN
    ELSE IF IsInf(a) \/ IsInf(b)
    THEN (IF IsZero(a) \/ IsZero(b) THEN FNaN ELSE FInf((a.s + b.s) % 2))
    ELSE IF IsZero(a) \/ IsZero(b) THEN FZero
    ELSE FRound((a.s + b.s) % 2, BMul(a.m, b.m), a.e + b.e, FALSE)

\* qr is <<quotient, remainder>>
FDivRound(s, qr, e) == FRound(s, qr[1], e, Len(qr[2]) > 0)

\* a / b
FDiv(a, b) ==
    IF IsNaN(a) \/ IsNaN(b) THEN FNaN
    ELSE IF IsInf(a) THEN (IF IsInf(b) THEN FNaN ELSE FInf((a.s + b.s) % 2))
    ELSE IF IsInf(b) THEN FZero
    ELSE IF IsZero(b) THEN (IF IsZero(a) THEN FNaN ELSE FInf((a.s + b.s) % 2))
    ELSE IF IsZero(a) THEN FZero
    ELSE FDivRound((a.s + b.s) % 2, BDivScaled(a.m, b.m, SigBits + 3),
                   a.e - b.e - (SigBits + 3))

\* R is floor(sqrt(N))
FSqrtRound(N, R, e) == FRound(0, R, e, BCmp(BMul(R, R), N) # 0)

\* sqrt(N) * 2^e
FSqrtOf(N, e) == FSqrtRound(N, BSqrt(N), e)

\* Math.sqrt
FSqrt(a) ==
    IF IsNaN(a) THEN FNaN
    ELSE IF IsZero(a) THEN FZero
    ELSE IF a.s = 1 THEN FNaN
    ELSE IF IsInf(a) THEN a
    ELSE FSqrtOf(BShl(a.m, SigBits + 3 + (a.e % 2)),
                 (a.e - (a.e % 2) - (SigBits + 3)) \div 2)

\* order of two values that are not NaN: -1, 0, 1
FSign(a) == IF IsZero(a) THEN 0 ELSE IF a.s = 1 THEN -1 ELSE 1

FMagCmp(a, b) ==
    IF IsInf(a) THEN (IF IsInf(b) THEN 0 ELSE 1)
    ELSE IF IsInf(b) THEN -1
    ELSE IF IsZero(a) THEN (IF IsZero(b) THEN 0 ELSE -1)
    ELSE IF IsZero(b) THEN 1
    ELSE IF a.e < b.e THEN -1
    ELSE IF a.e > b.e THEN 1
    ELSE BCmp(a.m, b.m)

FCmp(a, b) ==
    IF FSign(a) < FSign(b) THEN -1
    ELSE IF FSign(a) > FSign(b) THEN 1
    ELSE IF FSign(a) >= 0 THEN FMagCmp(a, b)
    ELSE FMagCmp(b, a)

\* a < b, a > b, a === b, a >= b, a <= b: all false when an operand is NaN
FLt(a, b) == ~IsNaN(a) /\ ~IsNaN(b) /\ FCmp(a, b) < 0
FGt(a, b) == ~IsNaN(a) /\ ~IsNaN(b) /\ FCmp(a, b) > 0
FEq(a, b) == ~IsNaN(a) /\ ~IsNaN(b) /\ FCmp(a, b) = 0

\* Math.max, Math.min: NaN when an operand is NaN
FMax(a, b) == IF IsNaN(a) \/ IsNaN(b) THEN FNaN ELSE IF FCmp(a, b) >= 0 THEN a ELSE b
FMin(a, b) == IF IsNaN(a) \/ IsNaN(b) THEN FNaN ELSE IF FCmp(a, b) <= 0 THEN a ELSE b

(***************************************************************************)
(* Number literals of the source and the values the model's inputs are     *)
(* drawn from, as binary64 values.                                         *)
(***************************************************************************)
\* 2^k, exactly
Pow2(k) == FNum(0, <<0, 0, 0, 128>>, k - 52)

FOne == Pow2(0)
FMinusOne == FNeg(FOne)
F0_5 == Pow2(-1)
F0_001 == FNum(0, <<10748, 9699, 2359, 131>>, -62)
F0_3 == FNum(0, <<13107, 26214, 19660, 153>>, -54)
F0_6 == FNum(0, <<13107, 26214, 19660, 153>>, -53)
F0_51 == FNum(0, <<14418, 2621, 18350, 130>>, -53)
F0_07 == FNum(0, <<20972, 15728, 11796, 143>>, -56)
F100 == FNum(0, <<0, 0, 0, 200>>, -46)

\* ln 2, 3 ln 2 and ln 1.02 rounded to binary64
FLn2 == FNum(0, <<14831, 32244, 14603, 177>>, -53)
FLn8 == FNum(0, <<11123, 32375, 2760, 133>>, -51)
FLn1_02 == FNum(0, <<10230, 9445, 7311, 162>>, -58)

(***************************************************************************)
(* Math.log on the quotients the model's prices produce: the binary64      *)
(* value nearest to the natural logarithm.  The model's prices are powers  *)
(* of two (quotients 2^d) and the pair 0.5, 0.51 (quotients 1.02 and       *)
(* 1/1.02 as the binary64 division gives them).                            *)
(***************************************************************************)
MathLogTable ==
    { <<Pow2(0), FZero>>,
      <<Pow2(1), FLn2>>,
      <<Pow2(-1), FNeg(FLn2)>>,
      <<Pow2(2), [FLn2 EXCEPT !.e = @ + 1]>>,
      <<Pow2(-2), FNeg([FLn2 EXCEPT !.e = @ + 1])>>,
      <<Pow2(3), FLn8>>,
      <<Pow2(-3), FNeg(FLn8)>>,
      <<Pow2(4), [FLn2 EXCEPT !.e = @ + 2]>>,
      <<Pow2(-4), FNeg([FLn2 EXCEPT !.e = @ + 2])>>,
      <<FNum(0, <<14418, 2621, 18350, 130>>, -52), FLn1_02>>,
      <<FNum(0, <<24415, 16062, 32125, 250>>, -53),
        FNum(1, <<10237, 9445, 7311, 162>>, -58)>> }

MathLog(q) == (CHOOSE p \in MathLogTable : p[1] = q)[2]

(***************************************************************************)
(* graph.js: the numeric kernel.                                           *)
(***************************************************************************)
\* x.reduce((a, b) => a + b, 0) over the first n elements
RECURSIVE SumTo(_, _)
SumTo(x, n) == IF n = 0 THEN FZero ELSE FAdd(SumTo(x, n - 1), x[n])

Sum(x) == SumTo(x, Len(x))

\* x.reduce((sum, xi, i) => sum + xi * y[i], 0)
RECURSIVE SumProdTo(_, _, _)
SumProdTo(x, y, n) ==
    IF n = 0 THEN FZero ELSE FAdd(SumProdTo(x, y, n - 1), FMul(x[n], y[n]))

SumProd(x, y) == SumProdTo(x, y, Len(x))

\* graph.js calculateCorrelation (the revision with the clamp)
\* if (denominator === 0) return 0; the quotient, clamped to [-1, 1]
CorrelationRatio(numerator, denominator) ==
    IF FEq(denominator, FZero) THEN FZero
    ELSE FMax(FMinusOne, FMin(FOne, FDiv(numerator, denominator)))

\* A variant of CorrelationOfSums whose denominator takes the spread of x
\* for the spread of y.
CorrelationOfSumsSpreadOfX(n, sumX, sumY, sumXY, sumX2, sumY2) ==
    CorrelationRatio(
        FSub(FMul(n, sumXY), FMul(sumX, sumY)),
        FSqrt(FMul(FSub(FMul(n, sumX2), FMul(sumX, sumX)),
                   FSub(FMul(n, sumX2), FMul(sumX, sumX)))))

\* numerator and denominator from the five sums
CorrelationOfSums(n, sumX, sumY, sumXY, sumX2, sumY2) ==
    CorrelationRatio(
        FSub(FMul(n, sumXY), FMul(sumX, sumY)),
        FSqrt(FMul(FSub(FMul(n, sumX2), FMul(sumX, sumX)),
                   FSub(FMul(n, sumY2), FMul(sumY, sumY)))))

calculateCorrelation(x, y) ==
    IF Len(x) # Len(y) \/ Len(x) = 0 THEN FZero
    ELSE CorrelationOfSums(FromInt(Len(x)), Sum(x), Sum(y),
                           SumProd(x, y), SumProd(x, x), SumProd(y, y))

\* graph.js calculateVariance
\* Math.pow(d, 2) is d * d
MathPow2(d) == FMul(d, d)

\* data.map(x => Math.pow(x - mean, 2))
SquaredDiffs(data, mean) ==
    [k \in 1..Len(data) |-> MathPow2(FSub(data[k], mean))]

calculateVariance(data) ==
    IF Len(data) = 0 THEN FZero
    ELSE FDiv(Sum(SquaredDiffs(data, FDiv(Sum(data), FromInt(Len(data))))),
              FromInt(Len(data)))

\* A variant of calculateLogReturns whose loop starts at i = 0: prices[-1]
\* is undefined, Math.max(undefined, 0.001) is NaN, and so is the first
\* return.
LogReturnsFromZero(prices) ==
    IF Len(prices) < 2 THEN <<>>
    ELSE [i \in 1..Len(prices) |->
            IF i = 1 THEN FNaN
            ELSE MathLog(FDiv(FMax(prices[i], F0_001), FMax(prices[i - 1], F0_001)))]

\* A variant of calculateLogReturns whose loop starts at i = 2: the first
\* return is left out.
LogReturnsSkippingFirst(prices) ==
    IF Len(prices) < 2 THEN <<>>
    ELSE [i \in 1..(Len(prices) - 2) |->
            MathLog(FDiv(FMax(prices[i + 2], F0_001), FMax(prices[i + 1], F0_001)))]

\* graph.js calculateLogReturns
calculateLogReturns(prices) ==
    IF Len(prices) < 2 THEN <<>>
    ELSE [i \in 1..(Len(prices) - 1) |->
            LET prevPrice == FMax(prices[i], F0_001)
                currPrice == FMax(prices[i + 1], F0_001)
            IN  MathLog(FDiv(currPrice, prevPrice))]

\* the Map alignByTimestamp builds from historyB: a later point with the
\* same timestamp overwrites an earlier one
TimestampMap(history) ==
    [t \in {history[i].t : i \in DOMAIN history} |->
        history[CHOOSE i \in DOMAIN history :
                   /\ history[i].t = t
                   /\ \A j \in DOMAIN history : history[j].t = t => j <= i].p]

\* graph.js alignByTimestamp
\* A variant of AlignedPrices that looks every price of historyB up under
\* the timestamp of the first matched point.
AlignedPricesStaleKey(matched, mapB) ==
    [pricesA |-> [k \in DOMAIN matched |-> matched[k].p],
     pricesB |-> [k \in DOMAIN matched |-> mapB[matched[1].t]]]

\* the two arrays the second loop of alignByTimestamp fills, from the
\* points of historyA that passed mapB.has(point.t)
AlignedPrices(matched, mapB) ==
    [pricesA |-> [k \in DOMAIN matched |-> matched[k].p],
     pricesB |-> [k \in DOMAIN matched |-> mapB[matched[k].t]]]

\* the points of historyA with mapB.has(point.t), in the order of historyA
MatchedPoints(historyA, mapB) ==
    LET HasB(point) == point.t \in DOMAIN mapB
    IN  SelectSeq(historyA, HasB)

\* A variant of alignByTimestamp that scans historyB and looks up historyA.
AlignScanningB(historyA, historyB) ==
    [pricesA |-> AlignedPrices(MatchedPoints(historyB, TimestampMap(historyA)),
                               TimestampMap(historyA)).pricesB,
     pricesB |-> AlignedPrices(MatchedPoints(historyB, TimestampMap(historyA)),
                               TimestampMap(historyA)).pricesA]

\* graph.js alignByTimestamp
alignByTimestamp(historyA, historyB) ==
    AlignedPrices(MatchedPoints(historyA, TimestampMap(historyB)),
                  TimestampMap(historyB))

(***************************************************************************)
(* api.js loadData: the state.                                             *)
(*   markets         what fetchMarkets returned, each with the outcome of  *)
(*                   its history fetch                                     *)
(*   pc              position in loadData                                  *)
(*   batchStart      the index i of the batch loop (0-based)               *)
(*   nodes           the nodes array                                       *)
(*   historyMap      the Map id -> history                                 *)
(*   i, j            the indices of the pair loops (1-based)               *)
(*   loc             the locals of the last executed pair-loop body        *)
(*   candidateLinks  the candidateLinks array; adjacency lists refer to    *)
(*                   its link objects by index                             *)
(*   adjacency       the adjacency Map, as its entries in insertion order  *)
(*   capIdx          position of the capper's iteration over adjacency     *)
(*   links           the links loadData returns                            *)
(*   arg, ret        argument and result of a kernel function applied on   *)
(*                   its own (specifications SpecAlign, SpecCorr)          *)
(*   categoryCache   localStorage item 'polymarket_category_cache'         *)
(*   llm             what POST /api/classify answers for each market id    *)
(* backtest-main.js: the state of the backtest page.                       *)
(*   page            the DOM: which elements are hidden, the progress log, *)
(*                   what the results view displays                        *)
(*   session         sessionStorage item 'backtestResults'                 *)
(*   backtestResults the module variable backtestResults                   *)
(*   selectedMarket  the module variable selectedMarket                    *)
(*   run             the locals of the last runBacktest call               *)
(***************************************************************************)
VARIABLES markets, pc, batchStart, nodes, historyMap, i, j, loc,
          candidateLinks, adjacency, capIdx, links, arg, ret,
          categoryCache, llm, page, session, backtestResults, selectedMarket, run,
          stale, state, tooltip, search, stream

classification == <<categoryCache, llm>>

backtest == <<page, session, backtestResults, selectedMarket, run, stale>>

\* the graph page's filter state (state.js), the tooltip (ui.js), the market
\* search box and the stream reader of the backtest page
widgets == <<state, tooltip, search, stream>>

vars == <<markets, pc, batchStart, nodes, historyMap, i, j, loc,
          candidateLinks, adjacency, capIdx, links, arg, ret,
          classification, backtest, widgets>>

BATCH_SIZE == 10
TOP_LINKS == 10
MIN_POINTS == 10
MIN_RETURNS == 9
MIN_HISTORY == 10
MIN_VARIANCE == F0_001
LINK_THRESHOLD == F0_5
HIGH_CORRELATION == F0_6
HIGH_SPREAD == F0_3

\* api.js fetchMarketHistory: data.history (undefined when the response has
\* no history field), or null when the request failed; isNull stands for
\* both null and undefined, which the caller tests alike
fetchMarketHistory(m) ==
    IF m.response = "ok"
    THEN [isNull |-> FALSE, value |-> m.history]
    ELSE [isNull |-> TRUE, value |-> <<>>]

\* loadData, "Sanitize Probability"
SanitizeProbability(p) ==
    LET prob == IF FGt(p, FOne) THEN FDiv(p, F100) ELSE p
    IN  FMax(FZero, FMin(FOne, prob))

\* A variant of FetchCallback with nodes.push outside the if: a market
\* without a usable history becomes a node all the same (probability 0).
FetchCallbackNodeAlways(st, m) ==
    LET history == fetchMarketHistory(m)
    IN  IF ~history.isNull /\ Len(history.value) > MIN_HISTORY
        THEN [nodes |-> Append(st.nodes,
                  [id |-> m.id,
                   probability |->
                       SanitizeProbability(history.value[Len(history.value)].p),
                   category |-> "Other"]),
              historyMap |->
                  [x \in DOMAIN st.historyMap \cup {m.id} |->
                      IF x = m.id THEN history.value ELSE st.historyMap[x]]]
        ELSE [nodes |-> Append(st.nodes,
                  [id |-> m.id, probability |-> FZero, category |-> "Other"]),
              historyMap |-> st.historyMap]

\* the callback of batch.map for market m, on st = [nodes, historyMap]
FetchCallback(st, m) ==
    LET history == fetchMarketHistory(m)
    IN  IF ~history.isNull /\ Len(history.value) > MIN_HISTORY
        THEN [nodes |-> Append(st.nodes,
                  [id |-> m.id,
                   probability |->
                       SanitizeProbability(history.value[Len(history.value)].p),
                   category |-> "Other"]),
              historyMap |->
                  [x \in DOMAIN st.historyMap \cup {m.id} |->
                      IF x = m.id THEN history.value ELSE st.historyMap[x]]]
        ELSE st

\* the callbacks of a batch, run in the order their fetches complete
RECURSIVE RunCallbacks(_, _, _, _)
RunCallbacks(st, batch, order, n) ==
    IF n = 0 THEN st
    ELSE FetchCallback(RunCallbacks(st, batch, order, n - 1), batch[order[n]])

AllOrders(n) ==
    {f \in [1..n -> 1..n] : \A a, b \in 1..n : a # b => f[a] # f[b]}

\* Completion orders of a batch of n fetches: every order for a batch of at
\* most MaxPermuted fetches, the order of issue and its reverse for more.
MaxPermuted == 3

CompletionOrders(n) ==
    IF n <= MaxPermuted THEN AllOrders(n)
    ELSE {[k \in 1..n |-> k], [k \in 1..n |-> n + 1 - k]}

\* A variant of FetchBatch without the try/catch of the callback: a failed
\* fetch rejects Promise.all, and loadData with it.
FetchBatchAborting ==
    /\ pc = "fetch"
    /\ batchStart < Len(markets)
    /\ LET last == IF batchStart + BATCH_SIZE < Len(markets)
                   THEN batchStart + BATCH_SIZE ELSE Len(markets)
           batch == SubSeq(markets, batchStart + 1, last)
       IN  /\ \E order \in CompletionOrders(Len(batch)) :
              \E st \in {RunCallbacks([nodes |-> nodes, historyMap |-> historyMap],
                                      batch, order, Len(batch))} :
                 /\ nodes' = st.nodes
                 /\ historyMap' = st.historyMap
           /\ pc' = IF \E k \in DOMAIN batch : batch[k].response = "error"
                    THEN "rejected" ELSE pc
    /\ batchStart' = batchStart + BATCH_SIZE
    /\ UNCHANGED <<markets, i, j, loc, candidateLinks, adjacency, capIdx,
                   links, arg, ret,
                   classification, backtest, widgets>>

\* one iteration of the batch loop: Promise.all over the batch
FetchBatch ==
    /\ pc = "fetch"
    /\ batchStart < Len(markets)
    /\ LET last == IF batchStart + BATCH_SIZE < Len(markets)
                   THEN batchStart + BATCH_SIZE ELSE Len(markets)
           batch == SubSeq(markets, batchStart + 1, last)
       IN  \E order \in CompletionOrders(Len(batch)) :
           \E st \in {RunCallbacks([nodes |-> nodes, historyMap |-> historyMap],
                                   batch, order, Len(batch))} :
              /\ nodes' = st.nodes
              /\ historyMap' = st.historyMap
    /\ batchStart' = batchStart + BATCH_SIZE
    /\ UNCHANGED <<markets, pc, i, j, loc, candidateLinks, adjacency, capIdx,
                   links, arg, ret,
                   classification, backtest, widgets>>

\* api.js classifyNodesWithLLM, the category a node ends with: the cached
\* one, else data.category || 'Other' of an ok response, else 'Other'. An
\* answer "" is an ok response without a category, "error" a failed request.
CategoryOf(cache, answers, id) ==
    IF id \in DOMAIN cache THEN cache[id]
    ELSE IF answers[id] \in {"", "error"} THEN "Other"
    ELSE answers[id]

\* classifyNodesWithLLM, the nodes after the call
ClassifiedNodes(ns, cache, answers) ==
    [n \in DOMAIN ns |-> [ns[n] EXCEPT !.category = CategoryOf(cache, answers, ns[n].id)]]

\* classifyNodesWithLLM, the cache it saves: the category of every uncached
\* node whose request was answered is added
SavedCache(ns, cache, answers) ==
    [id \in DOMAIN cache \cup {ns[n].id : n \in {k \in DOMAIN ns : answers[ns[k].id] # "error"}} |->
        CategoryOf(cache, answers, id)]

\* the batch loop is over: classifyNodesWithLLM, then the pair scan starts
\* with empty candidateLinks and adjacency
Classify ==
    /\ pc = "fetch"
    /\ batchStart >= Len(markets)
    /\ nodes' = ClassifiedNodes(nodes, categoryCache, llm)
    /\ categoryCache' = SavedCache(nodes, categoryCache, llm)
    /\ pc' = IF Len(nodes) >= 2 THEN "scan" ELSE "cap"
    /\ i' = 1
    /\ j' = 2
    /\ UNCHANGED <<markets, batchStart, historyMap, loc, candidateLinks,
                   adjacency, capIdx, links, arg, ret, llm, backtest, widgets>>

HasKey(adj, id) == \E k \in DOMAIN adj : adj[k].key = id

\* if (!adjacency.has(id)) adjacency.set(id, [])
AdjEnsure(adj, id) ==
    IF HasKey(adj, id) THEN adj ELSE Append(adj, [key |-> id, links |-> <<>>])

\* adjacency.get(id).push(link)
AdjPush(adj, id, l) ==
    [k \in DOMAIN adj |->
        IF adj[k].key = id THEN [adj[k] EXCEPT !.links = Append(@, l)] ELSE adj[k]]

NoLocals ==
    [a |-> 0, b |-> 0, exit |-> "none", points |-> 0, returns |-> 0,
     varianceA |-> FZero, varianceB |-> FZero, correlation |-> FZero]

\* A variant of Inefficiency with || for &&.
InefficiencyEither(correlation, nodeA, nodeB) ==
    IF \/ FGt(FAbs(correlation), HIGH_CORRELATION)
       \/ FGt(FAbs(FSub(nodeA.probability, nodeB.probability)), HIGH_SPREAD)
    THEN "High" ELSE "Low"

\* A variant of Inefficiency in which inefficiencyScore is declared outside
\* the loops and never reset: once "High", it stays "High".
InefficiencyNeverReset(correlation, nodeA, nodeB) ==
    IF \/ \E l \in DOMAIN candidateLinks : candidateLinks[l].inefficiency = "High"
       \/ /\ FGt(FAbs(correlation), HIGH_CORRELATION)
          /\ FGt(FAbs(FSub(nodeA.probability, nodeB.probability)), HIGH_SPREAD)
    THEN "High" ELSE "Low"

\* A variant of Inefficiency that reads the category: markets of one
\* category are never reported as an inefficiency.
InefficiencyAcrossCategories(correlation, nodeA, nodeB) ==
    IF /\ FGt(FAbs(correlation), HIGH_CORRELATION)
       /\ FGt(FAbs(FSub(nodeA.probability, nodeB.probability)), HIGH_SPREAD)
       /\ nodeA.category # nodeB.category
    THEN "High" ELSE "Low"

\* Inefficiency Logic
Inefficiency(correlation, nodeA, nodeB) ==
    IF /\ FGt(FAbs(correlation), HIGH_CORRELATION)
       /\ FGt(FAbs(FSub(nodeA.probability, nodeB.probability)), HIGH_SPREAD)
    THEN "High" ELSE "Low"

\* Variants of PairExit, each with one fault.  The properties of the pair
\* scan must tell every one of them from PairExit.
\* (1) both length gates one lower
PairExitOnePointLess(points, returns, varianceA, varianceB, correlation) ==
    IF points < MIN_POINTS - 1 THEN "points"
    ELSE IF returns < MIN_RETURNS - 1 THEN "returns"
    ELSE IF FLt(varianceA, MIN_VARIANCE) \/ FLt(varianceB, MIN_VARIANCE)
    THEN "stagnant"
    ELSE IF FGt(FAbs(correlation), LINK_THRESHOLD) THEN "link"
    ELSE "weak"

\* (2) the variance gate looks at varianceB only
PairExitVarianceOfBOnly(points, returns, varianceA, varianceB, correlation) ==
    IF points < MIN_POINTS THEN "points"
    ELSE IF returns < MIN_RETURNS THEN "returns"
    ELSE IF FLt(varianceB, MIN_VARIANCE) THEN "stagnant"
    ELSE IF FGt(FAbs(correlation), LINK_THRESHOLD) THEN "link"
    ELSE "weak"

\* (3) the threshold test is >= instead of >
PairExitAtThreshold(points, returns, varianceA, varianceB, correlation) ==
    IF points < MIN_POINTS THEN "points"
    ELSE IF returns < MIN_RETURNS THEN "returns"
    ELSE IF FLt(varianceA, MIN_VARIANCE) \/ FLt(varianceB, MIN_VARIANCE)
    THEN "stagnant"
    ELSE IF FGt(FAbs(correlation), LINK_THRESHOLD)
            \/ FEq(FAbs(correlation), LINK_THRESHOLD) THEN "link"
    ELSE "weak"

\* which way the body of the pair loop leaves: by one of its three
\* "continue"s, past the threshold test without a link, or with a link
PairExit(points, returns, varianceA, varianceB, correlation) ==
    IF points < MIN_POINTS THEN "points"
    ELSE IF returns < MIN_RETURNS THEN "returns"
    ELSE IF FLt(varianceA, MIN_VARIANCE) \/ FLt(varianceB, MIN_VARIANCE)
    THEN "stagnant"
    ELSE IF FGt(FAbs(correlation), LINK_THRESHOLD) THEN "link"
    ELSE "weak"

\* the body of the pair loop for nodeA and nodeB: the way it leaves, its
\* locals, and the link it pushes when it leaves with one
\* the locals when the body leaves by exit: those it did not reach are
\* left at zero
PairLocals(nodeA, nodeB, exit, points, returns, varianceA, varianceB, correlation) ==
    [a |-> nodeA.id, b |-> nodeB.id, exit |-> exit,
     points |-> points,
     returns |-> IF exit = "points" THEN 0 ELSE returns,
     varianceA |-> IF exit \in {"points", "returns"} THEN FZero ELSE varianceA,
     varianceB |-> IF exit \in {"points", "returns"} THEN FZero ELSE varianceB,
     correlation |-> IF exit \in {"link", "weak"} THEN correlation ELSE FZero]

PairStats(nodeA, nodeB, points, returnsA, returnsB, varianceA, varianceB, correlation) ==
    PairLocals(nodeA, nodeB,
               PairExit(points, Len(returnsA), varianceA, varianceB, correlation),
               points, Len(returnsA), varianceA, varianceB, correlation)

PairReturns(nodeA, nodeB, points, returnsA, returnsB) ==
    PairStats(nodeA, nodeB, points, returnsA, returnsB,
              calculateVariance(returnsA), calculateVariance(returnsB),
              calculateCorrelation(returnsA, returnsB))

PairAligned(nodeA, nodeB, aligned) ==
    PairReturns(nodeA, nodeB, Len(aligned.pricesA),
                calculateLogReturns(aligned.pricesA),
                calculateLogReturns(aligned.pricesB))

PairBody(nodeA, nodeB, historyA, historyB) ==
    PairAligned(nodeA, nodeB, alignByTimestamp(historyA, historyB))

\* the link object the body creates
NewLink(nodeA, nodeB, correlation) ==
    [source |-> nodeA.id,
     target |-> nodeB.id,
     correlation |-> correlation,
     isInverse |-> FLt(correlation, FZero),
     inefficiency |-> Inefficiency(correlation, nodeA, nodeB),
     keep |-> FALSE]

\* one execution of the body of the pair loop, for nodes[i] and nodes[j]
EvaluatePair ==
    /\ pc = "scan"
    /\ \E body \in {PairBody(nodes[i], nodes[j],
                             historyMap[nodes[i].id], historyMap[nodes[j].id])} :
          LET l == Len(candidateLinks) + 1
          IN  /\ loc' = body
              /\ candidateLinks' =
                     IF body.exit = "link"
                     THEN Append(candidateLinks,
                                 NewLink(nodes[i], nodes[j], body.correlation))
                     ELSE candidateLinks
              /\ adjacency' =
                     IF body.exit = "link"
                     THEN AdjPush(AdjPush(AdjEnsure(AdjEnsure(adjacency, body.a),
                                                    body.b),
                                          body.a, l),
                                  body.b, l)
                     ELSE adjacency
    /\ i' = IF j < Len(nodes) THEN i ELSE i + 1
    /\ j' = IF j < Len(nodes) THEN j + 1 ELSE i + 2
    /\ pc' = IF j' > Len(nodes) THEN "cap" ELSE "scan"
    /\ UNCHANGED <<markets, batchStart, nodes, historyMap, capIdx, links, arg, ret,
                   classification, backtest, widgets>>

\* A variant of CompareStrength that sorts the weakest link first.
CompareStrengthAscending(a, b) == FSub(FAbs(a.correlation), FAbs(b.correlation))

\* the comparator of links.sort: negative when link a sorts before link b
CompareStrength(a, b) == FSub(FAbs(b.correlation), FAbs(a.correlation))

\* Array.prototype.sort is stable: x goes behind every element that does
\* not sort after it
RECURSIVE InsertLink(_, _, _)
InsertLink(sorted, x, cl) ==
    IF Len(sorted) = 0 THEN <<x>>
    ELSE LET last == sorted[Len(sorted)]
         IN  IF FGt(CompareStrength(cl[last], cl[x]), FZero)
             THEN Append(InsertLink(SubSeq(sorted, 1, Len(sorted) - 1), x, cl), last)
             ELSE Append(sorted, x)

RECURSIVE SortLinksTo(_, _, _)
SortLinksTo(list, n, cl) ==
    IF n = 0 THEN <<>>
    ELSE InsertLink(SortLinksTo(list, n - 1, cl), list[n], cl)

\* links.sort((a, b) => Math.abs(b.correlation) - Math.abs(a.correlation))
SortLinks(list, cl) == SortLinksTo(list, Len(list), cl)

\* A variant of KeepCount that marks one entry more.
KeepCountOneMore(n) == IF n < TOP_LINKS + 1 THEN n ELSE TOP_LINKS + 1

\* how many entries of a sorted adjacency list are marked
KeepCount(n) == IF n < TOP_LINKS THEN n ELSE TOP_LINKS

\* one iteration of the capper's loop over adjacency.entries()
CapNode ==
    /\ pc = "cap"
    /\ capIdx <= Len(adjacency)
    /\ \E sorted \in {SortLinks(adjacency[capIdx].links, candidateLinks)} :
          LET kept == {sorted[k] : k \in 1..KeepCount(Len(sorted))}
          IN  /\ adjacency' = [adjacency EXCEPT ![capIdx].links = sorted]
              /\ candidateLinks' =
                     [l \in DOMAIN candidateLinks |->
                         IF l \in kept
                         THEN [candidateLinks[l] EXCEPT !.keep = TRUE]
                         ELSE candidateLinks[l]]
    /\ capIdx' = capIdx + 1
    /\ UNCHANGED <<markets, pc, batchStart, nodes, historyMap, i, j, loc, links,
                   arg, ret,
                   classification, backtest, widgets>>

\* A variant of Publish without the filter.
PublishAll ==
    /\ pc = "cap"
    /\ capIdx > Len(adjacency)
    /\ links' = candidateLinks
    /\ pc' = "done"
    /\ UNCHANGED <<markets, batchStart, nodes, historyMap, i, j, loc,
                   candidateLinks, adjacency, capIdx, arg, ret,
                   classification, backtest, widgets>>

\* const links = candidateLinks.filter(l => l.keep); return
Publish ==
    /\ pc = "cap"
    /\ capIdx > Len(adjacency)
    /\ LET Kept(l) == l.keep
       IN  links' = SelectSeq(candidateLinks, Kept)
    /\ pc' = "done"
    /\ UNCHANGED <<markets, batchStart, nodes, historyMap, i, j, loc,
                   candidateLinks, adjacency, capIdx, arg, ret,
                   classification, backtest, widgets>>

(***************************************************************************)
(* The inputs: market lists as fetchMarkets returns them, each market with *)
(* the response of its history request.  Prices are 2^(scale - k) for the  *)
(* exponents k of a walk, one point per timestamp from t0 on.              *)
(***************************************************************************)
Walk(t0, scale, ks) ==
    [n \in 1..Len(ks) |-> [t |-> t0 + n - 1, p |-> Pow2(scale - ks[n])]]

\* 0.5 and 0.51 in turn: a series that moves, with return variance 0.0004
Ripple(t0, len) ==
    [n \in 1..len |-> [t |-> t0 + n - 1, p |-> IF n % 2 = 1 THEN F0_5 ELSE F0_51]]

Market(id, history) == [id |-> id, response |-> "ok", history |-> history]
FailedMarket(id) == [id |-> id, response |-> "error", history |-> <<>>]
\* the response of the history request has no history field
NoHistoryMarket(id) == [id |-> id, response |-> "noHistory", history |-> <<>>]

WalkA == <<3, 2, 3, 4, 3, 2, 1, 2, 3, 2, 1>>
WalkInverse == <<3, 4, 3, 2, 3, 4, 5, 4, 3, 4, 5>>
WalkWeak == <<2, 4, 5, 4, 4, 5, 5, 5, 3, 5, 3>>
WalkMid == <<4, 5, 5, 5, 5, 5, 5, 5, 4, 5, 5>>
WalkFlat == <<1, 1, 1, 1, 1, 1, 1, 1, 1, 1, 1>>
WalkHalf == <<3, 3, 4, 6, 5, 1, 0, 2, 3, 7, 3>>

\* One batch and a market more.  Market 1 is the reference; 2 has the same
\* walk quoted in percent (prices above 1); 3 has the prices of 1 but shares
\* only 9 timestamps with it; 4 is constant; 5 moves with a return variance
\* below MIN_VARIANCE; 6 correlates weakly with 1; 7 mirrors 1; 8 correlates
\* with 1 between the two thresholds; 9 has 10 points only; the request of
\* 10 fails; 11 shares exactly 10 timestamps with 1 and with 3; the returns
\* of 12 and of 1 have the correlation 0.5 exactly; the response for 13 has
\* no history field.
GateMarkets ==
    << Market(1, Walk(1, 0, WalkA)),
       Market(2, Walk(1, 6, WalkA)),
       Market(3, Walk(3, 0, SubSeq(WalkA, 3, 11) \o <<2, 3>>)),
       Market(4, Walk(1, 0, WalkFlat)),
       Market(5, Ripple(1, 11)),
       Market(6, Walk(1, 0, WalkWeak)),
       Market(7, Walk(1, 0, WalkInverse)),
       Market(8, Walk(1, 0, WalkMid)),
       Market(9, Walk(1, 0, SubSeq(WalkA, 1, 10))),
       FailedMarket(10),
       Market(11, Walk(2, 0, SubSeq(WalkA, 2, 11) \o <<2>>)),
       Market(12, Walk(1, 0, WalkHalf)),
       NoHistoryMarket(13) >>

\* Twelve markets on one sampling grid, every pair of them correlated
\* above the threshold: each node has 11 candidate links.
DenseMarkets ==
    << Market(1, Walk(1, 0, <<3, 2, 3, 1, 3, 4, 3, 1, 3, 4, 2>>)),
       Market(2, Walk(1, 0, <<3, 2, 4, 2, 4, 3, 3, 1, 3, 5, 3>>)),
       Market(3, Walk(1, 0, <<4, 3, 5, 3, 5, 5, 3, 1, 3, 3, 1>>)),
       Market(4, Walk(1, 0, <<3, 4, 2, 4, 2, 1, 3, 5, 3, 1, 1>>)),
       Market(5, Walk(1, 0, <<3, 2, 4, 2, 4, 5, 3, 1, 3, 5, 3>>)),
       Market(6, Walk(1, 0, <<2, 2, 4, 2, 4, 5, 3, 1, 3, 5, 3>>)),
       Market(7, Walk(1, 0, <<3, 4, 2, 4, 2, 1, 3, 5, 5, 3, 2>>)),
       Market(8, Walk(1, 0, <<4, 5, 3, 4, 2, 1, 3, 5, 3, 1, 2>>)),
       Market(9, Walk(1, 0, <<2, 4, 2, 4, 2, 1, 3, 5, 3, 3, 5>>)),
       Market(10, Walk(1, 0, <<2, 4, 2, 3, 2, 1, 3, 5, 3, 1, 3>>)),
       Market(11, Walk(1, 0, <<3, 2, 4, 2, 4, 5, 3, 3, 5, 4, 2>>)),
       Market(12, Walk(1, 0, <<2, 1, 3, 2, 4, 5, 3, 1, 3, 5, 3>>)) >>

\* Three markets of one batch: every completion order is explored.
SmallMarkets ==
    << Market(1, Walk(1, 0, WalkA)),
       Market(7, Walk(1, 0, WalkInverse)),
       Market(8, Walk(1, 0, WalkMid)) >>

\* Twelve markets with a link for every pair, in which market 9 is exactly
\* as strongly correlated with market 6 as with market 10, and these two
\* links are the weakest of market 9.
TiedMarkets ==
    << Market(1, Walk(1, 0, <<4, 3, 3, 5, 3, 3, 3, 2, 3, 2, 4>>)),
       Market(2, Walk(1, 0, <<2, 3, 3, 1, 3, 3, 3, 4, 3, 5, 3>>)),
       Market(3, Walk(1, 0, <<5, 4, 3, 5, 3, 3, 5, 4, 5, 3, 5>>)),
       Market(4, Walk(1, 0, <<3, 1, 3, 5, 3, 3, 3, 2, 3, 1, 3>>)),
       Market(5, Walk(1, 0, <<3, 4, 3, 1, 3, 3, 3, 4, 3, 5, 3>>)),
       Market(6, Walk(1, 0, <<2, 3, 3, 1, 3, 1, 1, 2, 1, 3, 1>>)),
       Market(7, Walk(1, 0, <<2, 1, 1, 3, 1, 3, 3, 2, 3, 1, 3>>)),
       Market(8, Walk(1, 0, <<3, 2, 3, 5, 3, 3, 3, 2, 3, 1, 3>>)),
       Market(9, Walk(1, 0, <<2, 1, 1, 3, 5, 5, 5, 4, 5, 3, 5>>)),
       Market(10, Walk(1, 0, <<4, 3, 3, 5, 3, 5, 5, 4, 5, 3, 5>>)),
       Market(11, Walk(1, 0, <<1, 2, 2, 4, 4, 4, 4, 3, 4, 2, 4>>)),
       Market(12, Walk(1, 0, <<2, 1, 1, 3, 3, 3, 3, 3, 4, 2, 4>>)) >>

\* market lists with pairwise distinct ids (Market.id is unique)
Scenarios == <<GateMarkets, DenseMarkets, SmallMarkets>>

\* a market list in which fetchMarkets returned market 1 twice
DuplicateMarkets ==
    << Market(1, Walk(1, 0, WalkA)),
       Market(7, Walk(1, 0, WalkInverse)),
       Market(1, Walk(1, 0, WalkA)),
       Market(8, Walk(1, 0, WalkMid)),
       Market(6, Walk(1, 0, WalkWeak)) >>

\* the ids of a market list
IdsOf(ms) == {ms[k].id : k \in DOMAIN ms}

\* /api/classify answering by the market id: a category, none, or a failure
AnswerById(id) ==
    IF id % 4 = 0 THEN "error"
    ELSE IF id % 4 = 1 THEN "Politics"
    ELSE IF id % 4 = 2 THEN "Sports"
    ELSE ""

\* no backtest page
NoPage ==
    /\ page = <<>>
    /\ session = <<>>
    /\ backtestResults = <<>>
    /\ selectedMarket = <<>>
    /\ run = <<>>
    /\ stale = <<>>

NoWidgets ==
    /\ state = <<>>
    /\ tooltip = <<>>
    /\ search = <<>>
    /\ stream = <<>>

\* loadData(ms) called with the category cache and the classifier given
InitLoadWith(ms, cache, answers) ==
    /\ markets = ms
    /\ categoryCache = cache
    /\ llm = answers
    /\ NoPage
    /\ NoWidgets
    /\ pc = "fetch"
    /\ batchStart = 0
    /\ nodes = <<>>
    /\ historyMap = <<>>
    /\ i = 0
    /\ j = 0
    /\ loc = NoLocals
    /\ candidateLinks = <<>>
    /\ adjacency = <<>>
    /\ capIdx = 1
    /\ links = <<>>
    /\ arg = <<>>
    /\ ret = <<>>

\* loadData(ms) on a first visit: nothing cached yet
InitLoad(ms) == InitLoadWith(ms, <<>>, [id \in IdsOf(ms) |-> AnswerById(id)])

Init == \E n \in DOMAIN Scenarios : InitLoad(Scenarios[n])

Next == FetchBatch \/ Classify \/ EvaluatePair \/ CapNode \/ Publish

Spec == Init /\ [][Next]_vars

\* loadData has a step to take at every position but the last: at "fetch"
\* the batch loop iterates or ends, at "scan" the pair loop body runs, at
\* "cap" the capper iterates or ends.
CanStep == pc \in {"fetch", "scan", "cap"}

\* loadData is an async function on the event loop: once a step of it can
\* run (the awaited fetches settle), it does.  This is weak fairness of
\* Next, with the enabling condition of Next written out as CanStep.
FairSpec == Spec /\ ([]<>(~CanStep) \/ []<><<Next>>_vars)

(***************************************************************************)
(* Two visits: the page is loaded, loadData() runs to its end, and the     *)
(* page is loaded again over the same market data (api.js 256-392 runs     *)
(* once per page load).  The links of the first visit are kept in ret, in  *)
(* a one-element sequence, for comparison; the category cache              *)
(* (localStorage) outlives the visit.  Each FetchBatch of either visit     *)
(* takes its own completion order.                                         *)
(***************************************************************************)
LoadAgain ==
    /\ pc = "done"
    /\ ret = <<>>
    /\ ret' = <<links>>
    /\ pc' = "fetch"
    /\ batchStart' = 0
    /\ nodes' = <<>>
    /\ historyMap' = <<>>
    /\ i' = 0
    /\ j' = 0
    /\ loc' = NoLocals
    /\ candidateLinks' = <<>>
    /\ adjacency' = <<>>
    /\ capIdx' = 1
    /\ links' = <<>>
    /\ UNCHANGED <<markets, arg, classification, backtest, widgets>>

InitOrder == \E ms \in {TiedMarkets, SmallMarkets} : InitLoad(ms)

NextOrder == Next \/ LoadAgain

SpecOrder == InitOrder /\ [][NextOrder]_vars

\* a market list in which market 1 comes twice, before the markets it
\* links with: the pairs (1, 8) and (1, 7) are evaluated twice each
RepeatedMarkets ==
    << Market(1, Walk(1, 0, WalkA)),
       Market(1, Walk(1, 0, WalkA)),
       Market(8, Walk(1, 0, WalkMid)),
       Market(7, Walk(1, 0, WalkInverse)) >>

\* loadData on market lists that may repeat an id
\* what /api/classify may answer, and a cache left by an earlier visit
Answers == {"Politics", "Sports", "", "error"}
CachedBefore == [id \in {1} |-> "Crypto"]

\* two markets that mirror each other
MirrorMarkets ==
    << Market(1, Walk(1, 0, WalkA)),
       Market(7, Walk(1, 0, WalkInverse)) >>

\* loadData of two markets under every classification of them, with and
\* without a cached category
InitClassify ==
    \E answers \in [IdsOf(MirrorMarkets) -> Answers], cache \in {<<>>, CachedBefore} :
        InitLoadWith(MirrorMarkets, cache, answers)

SpecClassify == InitClassify /\ [][Next]_vars

InitDup ==
    InitLoad(DuplicateMarkets) \/ InitLoad(GateMarkets) \/ InitLoad(RepeatedMarkets)

SpecDup == InitDup /\ [][Next]_vars

(***************************************************************************)
(* graph.js alignByTimestamp applied on its own.  The timestamps of the    *)
(* two histories are any lists over 1..MaxTime of at most MaxHistory       *)
(* points, repeated and unordered timestamps included; every point has a   *)
(* price of its own, so that a returned price names the point it is from.  *)
(***************************************************************************)
MaxTime == 3
MaxHistory == 3

SeqsUpTo(S, n) == UNION {[1..k -> S] : k \in 0..n}

Points(ts, first) == [k \in DOMAIN ts |-> [t |-> ts[k], p |-> Pow2(0 - first - k)]]

\* no loadData in progress
Idle ==
    /\ markets = <<>>
    /\ batchStart = 0
    /\ nodes = <<>>
    /\ historyMap = <<>>
    /\ i = 0
    /\ j = 0
    /\ loc = NoLocals
    /\ candidateLinks = <<>>
    /\ adjacency = <<>>
    /\ capIdx = 1
    /\ links = <<>>
    /\ categoryCache = <<>>
    /\ llm = <<>>

InitAlign ==
    /\ Idle
    /\ NoPage
    /\ NoWidgets
    /\ pc = "alignCall"
    /\ \E ta, tb \in SeqsUpTo(1..MaxTime, MaxHistory) :
          arg = [historyA |-> Points(ta, 0), historyB |-> Points(tb, MaxHistory)]
    /\ ret = <<>>

CallAlign ==
    /\ pc = "alignCall"
    /\ ret' = alignByTimestamp(arg.historyA, arg.historyB)
    /\ pc' = "alignReturn"
    /\ UNCHANGED <<markets, batchStart, nodes, historyMap, i, j, loc,
                   candidateLinks, adjacency, capIdx, links, arg,
                   classification, backtest, widgets>>

NextAlign == CallAlign

SpecAlign == InitAlign /\ [][NextAlign]_vars

(***************************************************************************)
(* graph.js calculateCorrelation applied on its own, to any two series of  *)
(* at most MaxSeries values of SeriesValues.                               *)
(***************************************************************************)
MaxSeries == 3

SeriesValues == {F0_3, F0_07, F0_5}

InitCorr ==
    /\ Idle
    /\ NoPage
    /\ NoWidgets
    /\ pc = "corrCall"
    /\ \E x, y \in SeqsUpTo(SeriesValues, MaxSeries) : arg = [x |-> x, y |-> y]
    /\ ret = <<>>

CallCorrelation ==
    /\ pc = "corrCall"
    /\ ret' = calculateCorrelation(arg.x, arg.y)
    /\ pc' = "corrReturn"
    /\ UNCHANGED <<markets, batchStart, nodes, historyMap, i, j, loc,
                   candidateLinks, adjacency, capIdx, links, arg,
                   classification, backtest, widgets>>

NextCorr == CallCorrelation

SpecCorr == InitCorr /\ [][NextCorr]_vars

(***************************************************************************)
(* calculateCorrelation applied to a series and itself, and to a series    *)
(* and its negation.  The series are of at most MaxSelf values of          *)
(* SelfValues, which has two values that differ by 2^-27 only.             *)
(***************************************************************************)
MaxSelf == 3

\* 1 + 2^-27
FOnePlus == FNum(0, <<0, 1024, 0, 128>>, -52)

SelfValues == {FOne, FOnePlus, F0_5, F0_3, F0_07}

\* x.map(v => -v)
Negated(x) == [k \in DOMAIN x |-> FNeg(x[k])]

InitSelf ==
    /\ Idle
    /\ NoPage
    /\ NoWidgets
    /\ pc = "corrCall"
    /\ \E x \in SeqsUpTo(SelfValues, MaxSelf) :
       \E y \in {x, Negated(x)} : arg = [x |-> x, y |-> y]
    /\ ret = <<>>

SpecSelf == InitSelf /\ [][NextCorr]_vars

(***************************************************************************)
(* graph.js calculateLogReturns applied on its own, to any array of at     *)
(* most MaxPrices prices of PriceValues.                                   *)
(***************************************************************************)
MaxPrices == 4

PriceValues == {Pow2(0), Pow2(-1), Pow2(-3)}

InitReturns ==
    /\ Idle
    /\ NoPage
    /\ NoWidgets
    /\ pc = "returnsCall"
    /\ \E prices \in SeqsUpTo(PriceValues, MaxPrices) : arg = [prices |-> prices]
    /\ ret = <<>>

CallLogReturns ==
    /\ pc = "returnsCall"
    /\ ret' = calculateLogReturns(arg.prices)
    /\ pc' = "returnsReturn"
    /\ UNCHANGED <<markets, batchStart, nodes, historyMap, i, j, loc,
                   candidateLinks, adjacency, capIdx, links, arg,
                   classification, backtest, widgets>>

NextReturns == CallLogReturns

SpecReturns == InitReturns /\ [][NextReturns]_vars

(***************************************************************************)
(* The backtest evaluator behind POST /api/backtest.  For each follower it *)
(* takes the last price at or before the signal time as the entry price;   *)
(* a follower without one gives a skipped trade.  The P&L of a horizon is  *)
(* (exit - entry) / entry * 100 with the last price at or before signal +  *)
(* horizon as exit, sign-inverted for SELL, and null when the horizon      *)
(* extends past the history.  The summary aggregates the ok trades only.   *)
(* Time is counted in ticks; a history is sorted by time.                  *)
(***************************************************************************)
\* JS null where a number may stand
Null == [k |-> "null", s |-> 0, m |-> <<>>, e |-> 0]

HorizonNames == {"5m", "1h", "1d", "1w"}

\* the holding horizons in ticks
HorizonTicks(h) ==
    IF h = "5m" THEN 1 ELSE IF h = "1h" THEN 2 ELSE IF h = "1d" THEN 3 ELSE 5

\* the index of the last point of history at or before time t, 0 if none
LastAtOrBefore(history, t) ==
    IF \A n \in DOMAIN history : history[n].t > t THEN 0
    ELSE CHOOSE n \in DOMAIN history :
             /\ history[n].t <= t
             /\ \A k \in DOMAIN history : history[k].t <= t => k <= n

\* same-outcome correlation positive => BUY; inverse => SELL
DirectionOf(follower) == IF follower.isInverse THEN "SELL" ELSE "BUY"

PnlPct(entry, exit, direction) ==
    IF direction = "BUY" THEN FMul(FDiv(FSub(exit, entry), entry), F100)
    ELSE FNeg(FMul(FDiv(FSub(exit, entry), entry), F100))

\* the P&L of follower at horizon h for a position opened at time signal
HorizonPnl(follower, signal, entry, h) ==
    IF signal + HorizonTicks(h) > follower.history[Len(follower.history)].t THEN Null
    ELSE PnlPct(entry,
                follower.history[LastAtOrBefore(follower.history, signal + HorizonTicks(h))].p,
                DirectionOf(follower))

SkippedTrade(follower) ==
    [id |-> follower.id, status |-> "skipped",
     rationale |-> "no price data at signal time",
     direction |-> DirectionOf(follower), entry_price |-> Null,
     pnl |-> [h \in HorizonNames |-> Null], pnl_pct |-> Null]

OkTrade(follower, signal, period, entry) ==
    [id |-> follower.id, status |-> "ok",
     rationale |-> "price moves with the leader",
     direction |-> DirectionOf(follower), entry_price |-> entry,
     pnl |-> [h \in HorizonNames |-> HorizonPnl(follower, signal, entry, h)],
     pnl_pct |-> HorizonPnl(follower, signal, entry, period)]

\* the trade record of one follower
TradeRecord(follower, signal, period) ==
    IF LastAtOrBefore(follower.history, signal) = 0 THEN SkippedTrade(follower)
    ELSE OkTrade(follower, signal, period,
                 follower.history[LastAtOrBefore(follower.history, signal)].p)

IsOk(trade) == trade.status = "ok"

\* the average of a list of numbers, null for the empty list
Average(values) ==
    IF Len(values) = 0 THEN Null ELSE FDiv(Sum(values), FromInt(Len(values)))

IsNumber(x) == x # Null

\* what an aggregate of the ok trades is taken over: the values of the ok
\* trades that are not null
Aggregated(values, trades) ==
    LET Counts(n) == IsOk(trades[n]) /\ IsNumber(values[n])
    IN  [k \in 1..Cardinality({n \in DOMAIN trades : Counts(n)}) |->
            values[CHOOSE n \in DOMAIN trades :
                       Counts(n) /\ Cardinality({x \in 1..n : Counts(x)}) = k]]

Summary(trades) ==
    [total_trades |-> Cardinality({n \in DOMAIN trades : IsOk(trades[n])}),
     skipped_trades |-> Cardinality({n \in DOMAIN trades : ~IsOk(trades[n])}),
     avg_pnl |-> [h \in HorizonNames |->
                     Average(Aggregated([n \in DOMAIN trades |-> trades[n].pnl[h]], trades))],
     avg_pnl_pct |-> Average(Aggregated([n \in DOMAIN trades |-> trades[n].pnl_pct], trades))]

TradesOf(followers, signal, period) ==
    [n \in DOMAIN followers |-> TradeRecord(followers[n], signal, period)]

\* the data of the 'done' event
BacktestData(followers, signal, period) ==
    [trades |-> TradesOf(followers, signal, period),
     summary |-> Summary(TradesOf(followers, signal, period)),
     holding_period |-> period]

Event(type, message, data) == [type |-> type, message |-> message, data |-> data]

\* the stream of a backtest: a step and its result for every follower, a
\* keepalive, and the final data
RECURSIVE FollowerEvents(_)
FollowerEvents(n) ==
    IF n = 0 THEN <<>>
    ELSE FollowerEvents(n - 1)
             \o <<Event("step", "Evaluating follower", Null),
                  Event("result", "Follower evaluated", Null)>>

EvaluatorStream(followers, signal, period) ==
    FollowerEvents(Len(followers))
        \o <<Event("keepalive", "", Null),
             Event("done", "", BacktestData(followers, signal, period))>>

\* the leader has no price history: the evaluator aborts before any
\* follower, with a fatal error as its last event
FatalStream ==
    <<Event("step", "Fetching leader history", Null),
      Event("error", "No price history for the leader", Null)>>

(***************************************************************************)
(* The backtest page: backtest-main.js, and the copy of it in main.js      *)
(* (from line 275 on).  The two scripts differ in what they display: the   *)
(* first reads the P&L of the configured holding period (trade.pnl_pct),   *)
(* the second the P&L of each horizon (trade.pnl).  An element of the page *)
(* is TRUE when it is visible (it does not have the class 'hidden').       *)
(***************************************************************************)
Scripts == {"backtest-main.js", "main.js"}

\* the document as served
LoadedPage(script) ==
    [script |-> script,
     searchPanel |-> TRUE, searchForm |-> TRUE, panelTitle |-> TRUE,
     progressLog |-> FALSE, progressBody |-> <<>>, retryBtn |-> FALSE,
     resultsContainer |-> FALSE, newBacktestBtn |-> FALSE,
     summary |-> Null, tradesTable |-> <<>>, pnlChart |-> <<>>]

showProgress(pg) ==
    [pg EXCEPT !.panelTitle = FALSE, !.searchForm = FALSE,
               !.progressBody = <<>>, !.retryBtn = FALSE, !.progressLog = TRUE]

hideProgress(pg) ==
    [pg EXCEPT !.progressLog = FALSE, !.searchForm = TRUE, !.panelTitle = TRUE]

\* logStep appends a row; the row it returns is the last one
logStep(pg, message) ==
    [pg EXCEPT !.progressBody = Append(@, [message |-> message, icon |-> "pulse", detail |-> ""])]

\* stepEl is the index of a row, 0 for null
resolveStep(pg, stepEl, detail) ==
    IF stepEl = 0 THEN pg
    ELSE [pg EXCEPT !.progressBody[stepEl].icon = "check",
                    !.progressBody[stepEl].detail = IF detail = "" THEN @ ELSE detail]

\* logError marks the step as failed, or appends an error row when there
\* is no step; then showRetryButton
logError(pg, message, stepEl) ==
    IF stepEl # 0
    THEN [pg EXCEPT !.progressBody[stepEl].icon = "cross",
                    !.progressBody[stepEl].detail = message,
                    !.retryBtn = TRUE]
    ELSE [pg EXCEPT !.progressBody = Append(@, [message |-> message, icon |-> "cross", detail |-> ""]),
                    !.retryBtn = TRUE]

\* the number a comparator of script reads from trade in view ("table" or
\* "chart"): (pnl_pct || 0) and pnl_pct coerced, pnl?.['1d'] ?? 0
SortKey(script, trade) ==
    IF script = "backtest-main.js"
    THEN (IF trade.pnl_pct = Null \/ IsNaN(trade.pnl_pct) THEN FZero ELSE trade.pnl_pct)
    ELSE (IF trade.pnl["1d"] = Null THEN FZero ELSE trade.pnl["1d"])

\* the comparators of the sorts: that of renderTradesTable puts ok trades
\* first, by P&L descending, then the others; that of renderPnlChart is by
\* P&L descending
CompareTrades(view, script, a, b) ==
    IF view = "table" /\ IsOk(a) /\ ~IsOk(b) THEN -1
    ELSE IF view = "table" /\ ~IsOk(a) /\ IsOk(b) THEN 1
    ELSE IF view = "table" /\ ~IsOk(a) /\ ~IsOk(b) THEN 0
    ELSE FSign(FSub(SortKey(script, b), SortKey(script, a)))

RECURSIVE InsertTrade(_, _, _, _)
InsertTrade(view, script, sorted, x) ==
    IF Len(sorted) = 0 THEN <<x>>
    ELSE IF CompareTrades(view, script, sorted[Len(sorted)], x) > 0
    THEN Append(InsertTrade(view, script, SubSeq(sorted, 1, Len(sorted) - 1), x), sorted[Len(sorted)])
    ELSE Append(sorted, x)

RECURSIVE SortTradesTo(_, _, _, _)
SortTradesTo(view, script, trades, n) ==
    IF n = 0 THEN <<>>
    ELSE InsertTrade(view, script, SortTradesTo(view, script, trades, n - 1), trades[n])

\* [...trades].sort(comparator): stable
SortTrades(view, script, trades) == SortTradesTo(view, script, trades, Len(trades))

\* renderTradesTable: the rows, in order
renderTradesTable(script, trades) == SortTrades("table", script, trades)

Has1d(trade) == trade.pnl["1d"] # Null

\* renderPnlChart: the bars, in order.  main.js charts the 1d P&L and
\* leaves out the trades that have none.
renderPnlChart(script, trades) ==
    IF script = "backtest-main.js" THEN SortTrades("chart", script, trades)
    ELSE SortTrades("chart", script, SelectSeq(trades, Has1d))

\* A variant of ChartInput that hands every trade to the chart.
ChartInputAllTrades(data) == data.trades

\* showResults: what it hands to renderPnlChart
ChartInput(data) == SelectSeq(data.trades, IsOk)

\* showResults, up to the summary
ShowSummary(pg, data) ==
    [pg EXCEPT !.searchPanel = FALSE, !.newBacktestBtn = TRUE,
               !.resultsContainer = TRUE, !.summary = data.summary]

\* backtest-main.js formats the average with avgPnl.toFixed(2), which
\* throws on null: the table and the chart are then left as they were
SummaryThrows(script, data) ==
    script = "backtest-main.js" /\ data.summary.avg_pnl_pct = Null

showResults(pg, data) ==
    IF SummaryThrows(pg.script, data) THEN ShowSummary(pg, data)
    ELSE [ShowSummary(pg, data) EXCEPT
              !.tradesTable = renderTradesTable(pg.script, data.trades),
              !.pnlChart = renderPnlChart(pg.script, ChartInput(data))]

\* no runBacktest call in flight
NoRun ==
    [pc |-> "none", rest |-> <<>>, currentStep |-> 0, finalData |-> Null, posted |-> FALSE]

\* JSON.stringify writes NaN and the infinities as null
JsonNumber(x) == IF x.k \in {"nan", "inf"} THEN Null ELSE x

JsonTrade(trade) ==
    [trade EXCEPT !.entry_price = JsonNumber(@),
                  !.pnl = [h \in HorizonNames |-> JsonNumber(@[h])],
                  !.pnl_pct = JsonNumber(@)]

\* JSON.parse(JSON.stringify(data))
JsonRoundTrip(data) ==
    [data EXCEPT !.trades = [n \in DOMAIN data.trades |-> JsonTrade(data.trades[n])],
                 !.summary.avg_pnl = [h \in HorizonNames |-> JsonNumber(@[h])],
                 !.summary.avg_pnl_pct = JsonNumber(@)]

\* selectedMarket = null
NoMarket == [id |-> 0, clobTokenId |-> ""]

\* the markets the search offers: with and without a CLOB token id
LeaderMarkets == {[id |-> 1, clobTokenId |-> "token"], [id |-> 2, clobTokenId |-> ""]}

\* the followers the evaluator finds for a leader whose signal is at
\* SignalTime: 21 has prices on both sides of the signal and up to a week
\* after it; 22 has prices after the signal only; 23, inverse to the
\* leader, has prices up to an hour after the signal
SignalTime == 3

FollowerPool ==
    {[id |-> 21, isInverse |-> FALSE, history |-> Walk(1, 0, <<1, 2, 2, 3, 1, 0, 3, 2>>)],
     [id |-> 22, isInverse |-> FALSE, history |-> Walk(4, 0, <<2, 1, 2>>)],
     [id |-> 23, isInverse |-> TRUE, history |-> Walk(2, 0, <<3, 2, 1, 2>>)]}

MaxFollowers == 2

\* the lists of at most MaxFollowers distinct followers
FollowerLists ==
    {fs \in SeqsUpTo(FollowerPool, MaxFollowers) :
        \A a, b \in DOMAIN fs : a # b => fs[a].id # fs[b].id}

\* holdingPeriod, left at its initial value
Periods == {"1d"}

\* what POST /api/backtest may answer: no answer, an error status, or a
\* stream that is empty, fatal, or that of an evaluation
Responses ==
    {[kind |-> "failed", events |-> <<>>], [kind |-> "notOk", events |-> <<>>],
     [kind |-> "ok", events |-> <<>>], [kind |-> "ok", events |-> FatalStream]}
    \cup {[kind |-> "ok", events |-> EvaluatorStream(fs, SignalTime, period)] :
             fs \in FollowerLists, period \in Periods}

\* runBacktest up to the request: the progress log with its first two rows
ProgressStarted(pg) ==
    resolveStep(logStep(resolveStep(logStep(showProgress(pg), "Leader"), 1, ""), "Config"), 2, "")

\* runBacktest has returned, after its POST /api/backtest or before it
Returned == [NoRun EXCEPT !.pc = "returned", !.posted = TRUE]

ReturnedUnsent == [NoRun EXCEPT !.pc = "returned"]

\* A variant of Requested without the test of the token id.
RequestedAnyway(pg, market, response) ==
    IF response.kind = "failed"
    THEN [page |-> logError(ProgressStarted(pg), "Connection error", 0), run |-> Returned]
    ELSE IF response.kind = "notOk"
    THEN [page |-> logError(ProgressStarted(pg), "Server error", 0), run |-> Returned]
    ELSE [page |-> ProgressStarted(pg),
          run |-> [pc |-> "stream", rest |-> response.events, currentStep |-> 0,
                   finalData |-> Null, posted |-> TRUE]]

\* runBacktest from showProgress to the first reader.read, given the
\* response of the request
Requested(pg, market, response) ==
    IF market.clobTokenId = ""
    THEN [page |-> logError(ProgressStarted(pg), "No CLOB token ID found for this market", 0),
          run |-> ReturnedUnsent]
    ELSE IF response.kind = "failed"
    THEN [page |-> logError(ProgressStarted(pg), "Connection error", 0), run |-> Returned]
    ELSE IF response.kind = "notOk"
    THEN [page |-> logError(ProgressStarted(pg), "Server error", 0), run |-> Returned]
    ELSE [page |-> ProgressStarted(pg),
          run |-> [pc |-> "stream", rest |-> response.events, currentStep |-> 0,
                   finalData |-> Null, posted |-> TRUE]]

\* no runBacktest call is waiting for its stream or its timer
NoneInFlight == run.pc \in {"none", "returned"}

\* a click on a search result
SelectMarket ==
    /\ pc = "page"
    /\ page.searchPanel /\ page.searchForm
    /\ \E market \in LeaderMarkets : selectedMarket' = market
    /\ UNCHANGED <<markets, pc, batchStart, nodes, historyMap, i, j, loc,
                   candidateLinks, adjacency, capIdx, links, arg, ret,
                   classification, page, session, backtestResults, run, stale, widgets>>

\* a click on the clear-selection button
ClearSelection ==
    /\ pc = "page"
    /\ page.searchPanel /\ page.searchForm
    /\ selectedMarket # NoMarket
    /\ selectedMarket' = NoMarket
    /\ UNCHANGED <<markets, pc, batchStart, nodes, historyMap, i, j, loc,
                   candidateLinks, adjacency, capIdx, links, arg, ret,
                   classification, page, session, backtestResults, run, stale, widgets>>

\* a click on the backtest button: runBacktest, up to its first
\* reader.read.  A call is started only when none is in flight.
ClickBacktest ==
    /\ pc = "page"
    /\ page.searchPanel /\ page.searchForm
    /\ selectedMarket # NoMarket
    /\ NoneInFlight
    /\ \E response \in Responses :
       \E next \in {Requested(page, selectedMarket, response)} :
          /\ page' = next.page
          /\ run' = next.run
    /\ UNCHANGED <<markets, pc, batchStart, nodes, historyMap, i, j, loc,
                   candidateLinks, adjacency, capIdx, links, arg, ret,
                   classification, session, backtestResults, selectedMarket, stale, widgets>>

\* the switch over event.type
Dispatched(pg, r, event) ==
    IF event.type = "step"
    THEN [page |-> logStep(pg, event.message),
          run |-> [r EXCEPT !.rest = Tail(@), !.currentStep = Len(pg.progressBody) + 1]]
    ELSE IF event.type = "result"
    THEN [page |-> resolveStep(pg, r.currentStep, event.message),
          run |-> [r EXCEPT !.rest = Tail(@), !.currentStep = 0]]
    ELSE IF event.type = "error"
    THEN [page |-> logError(pg, event.message, r.currentStep),
          run |-> [r EXCEPT !.rest = Tail(@), !.currentStep = 0]]
    ELSE IF event.type = "done"
    THEN [page |-> pg, run |-> [r EXCEPT !.rest = Tail(@), !.finalData = event.data]]
    ELSE [page |-> pg, run |-> [r EXCEPT !.rest = Tail(@)]]

\* one line of the stream is read and dispatched
ReadEvent ==
    /\ pc = "page"
    /\ run.pc = "stream"
    /\ run.rest # <<>>
    /\ \E next \in {Dispatched(page, run, Head(run.rest))} :
          /\ page' = next.page
          /\ run' = next.run
    /\ UNCHANGED <<markets, pc, batchStart, nodes, historyMap, i, j, loc,
                   candidateLinks, adjacency, capIdx, links, arg, ret,
                   classification, session, backtestResults, selectedMarket, stale, widgets>>

\* A variant of validTrades without the filter.
validTradesUnfiltered(finalData) == finalData.trades

\* const validTrades = finalData.trades.filter(t => t.status === 'ok')
validTrades(finalData) == SelectSeq(finalData.trades, IsOk)

\* runBacktest after a stream with valid trades: the last row of the log.
\* backtest-main.js formats summary.avg_pnl_pct with toFixed, which throws
\* on null, and the catch logs a connection error.
Completed(pg, finalData) ==
    IF SummaryThrows(pg.script, finalData)
    THEN [page |-> logError(logStep(pg, "Backtest complete"), "Connection error", 0),
          run |-> Returned]
    ELSE [page |-> resolveStep(logStep(pg, "Backtest complete"), Len(pg.progressBody) + 1, "Average P&L"),
          run |-> [Returned EXCEPT !.pc = "wait", !.finalData = finalData]]

\* runBacktest from the end of the stream to the timer
Finished(pg, finalData) ==
    IF finalData = Null
    THEN [page |-> logError(pg, "No results received from server", 0), run |-> Returned]
    ELSE IF Len(validTrades(finalData)) = 0
    THEN [page |-> logError(pg, "No executable trades found", 0),
          run |-> [Returned EXCEPT !.finalData = finalData]]
    ELSE Completed(pg, finalData)

\* reader.read reports the end of the stream
StreamEnds ==
    /\ pc = "page"
    /\ run.pc = "stream"
    /\ run.rest = <<>>
    /\ \E next \in {Finished(page, run.finalData)} :
          /\ page' = next.page
          /\ run' = next.run
    /\ backtestResults' = IF run.finalData = Null THEN backtestResults ELSE run.finalData
    /\ UNCHANGED <<markets, pc, batchStart, nodes, historyMap, i, j, loc,
                   candidateLinks, adjacency, capIdx, links, arg, ret,
                   classification, session, selectedMarket, stale, widgets>>

\* reader.read rejects: the connection broke
StreamBreaks ==
    /\ pc = "page"
    /\ run.pc = "stream"
    /\ page' = logError(page, "Connection error", 0)
    /\ run' = [Returned EXCEPT !.finalData = run.finalData]
    /\ UNCHANGED <<markets, pc, batchStart, nodes, historyMap, i, j, loc,
                   candidateLinks, adjacency, capIdx, links, arg, ret,
                   classification, session, backtestResults, selectedMarket, stale, widgets>>

\* sessionStorage.setItem('backtestResults', JSON.stringify(backtestResults))
\* and showResults(backtestResults), with the variable as it is when the
\* timer fires.  Of null the item is the text null, which restoreFromSession
\* reads as nothing to restore and which is held here as no item; showResults
\* throws on it and the catch logs a connection error.
Stored(pg, results) ==
    IF results = Null
    THEN [session |-> Null, page |-> logError(pg, "Connection error", 0)]
    ELSE [session |-> JsonRoundTrip(results), page |-> showResults(pg, results)]

\* the 600 ms timer fires: the results are stored and shown
StoreAndShow ==
    /\ pc = "page"
    /\ run.pc = "wait"
    /\ session' = Stored(page, backtestResults).session
    /\ page' = Stored(page, backtestResults).page
    /\ run' = [Returned EXCEPT !.finalData = run.finalData]
    /\ UNCHANGED <<markets, pc, batchStart, nodes, historyMap, i, j, loc,
                   candidateLinks, adjacency, capIdx, links, arg, ret,
                   classification, backtestResults, selectedMarket, stale, widgets>>

\* a click on the retry button of the progress log
ClickRetry ==
    /\ pc = "page"
    /\ page.searchPanel /\ page.progressLog /\ page.retryBtn
    /\ page' = [hideProgress(page) EXCEPT !.searchPanel = TRUE]
    /\ UNCHANGED <<markets, pc, batchStart, nodes, historyMap, i, j, loc,
                   candidateLinks, adjacency, capIdx, links, arg, ret,
                   classification, session, backtestResults, selectedMarket, run, stale, widgets>>

\* a click on the New Backtest button
ClickNewBacktest ==
    /\ pc = "page"
    /\ page.newBacktestBtn
    /\ page' = [hideProgress(page) EXCEPT !.resultsContainer = FALSE,
                                          !.searchPanel = TRUE,
                                          !.newBacktestBtn = FALSE]
    /\ backtestResults' = Null
    /\ session' = Null
    /\ selectedMarket' = NoMarket
    /\ UNCHANGED <<markets, pc, batchStart, nodes, historyMap, i, j, loc,
                   candidateLinks, adjacency, capIdx, links, arg, ret,
                   classification, run, stale, widgets>>

\* restoreFromSession on a freshly loaded page, given the stored item
Restored(pg, saved) ==
    IF saved = Null \/ Len(saved.trades) = 0 THEN pg ELSE showResults(pg, saved)

\* the page is loaded again: the script starts over, sessionStorage stays
Reload ==
    /\ pc = "page"
    /\ page' = Restored(LoadedPage(page.script), session)
    /\ backtestResults' = session
    /\ selectedMarket' = NoMarket
    /\ run' = NoRun
    /\ stale' = <<>>
    /\ UNCHANGED <<markets, pc, batchStart, nodes, historyMap, i, j, loc,
                   candidateLinks, adjacency, capIdx, links, arg, ret,
                   classification, session, widgets>>

\* the page as first loaded, with an empty sessionStorage
InitBacktest ==
    /\ Idle
    /\ NoWidgets
    /\ pc = "page"
    /\ arg = <<>>
    /\ ret = <<>>
    /\ \E script \in Scripts : page = LoadedPage(script)
    /\ session = Null
    /\ backtestResults = Null
    /\ selectedMarket = NoMarket
    /\ run = NoRun
    /\ stale = <<>>

NextBacktest ==
    \/ SelectMarket \/ ClearSelection \/ ClickBacktest \/ ReadEvent \/ StreamEnds \/ StreamBreaks
    \/ StoreAndShow \/ ClickRetry \/ ClickNewBacktest \/ Reload

SpecBacktest == InitBacktest /\ [][NextBacktest]_vars

(***************************************************************************)
(* Overlapping runs.  A row logged by logError brings the retry button     *)
(* with it, and the button shows the search form again whether or not a    *)
(* runBacktest call is still reading its stream or waiting for its timer.  *)
(* A click on the backtest button then starts a call of its own: run is    *)
(* the call started last, stale the earlier calls that have not returned.  *)
(* All of them write to the one progress log and the one backtestResults.  *)
(* showProgress empties the log, so the step elements the earlier calls    *)
(* hold are no longer in it.                                               *)
(***************************************************************************)
\* earlier calls in flight at once
MaxStale == 2

\* a step element that is no longer in the progress log
Detached == -1

Detach(r) == [r EXCEPT !.currentStep = IF @ = 0 THEN 0 ELSE Detached]

\* the streams of the overlapping runs: a fatal one, one with an ok trade,
\* one with a skipped trade only
RaceResponses ==
    {[kind |-> "ok", events |-> FatalStream]}
    \cup {[kind |-> "ok", events |-> EvaluatorStream(<<follower>>, SignalTime, "1d")] :
              follower \in {f \in FollowerPool : f.id \in {21, 22}}}

InFlight == IF NoneInFlight THEN <<>> ELSE <<run>>

Without(seq, k) == SubSeq(seq, 1, k - 1) \o SubSeq(seq, k + 1, Len(seq))

\* the sequence with r in place k, or without place k once r has returned
Put(seq, k, r) == IF r.pc = "returned" THEN Without(seq, k) ELSE [seq EXCEPT ![k] = r]

\* a click on the backtest button, whatever is in flight
StartRun ==
    /\ pc = "page"
    /\ page.searchPanel /\ page.searchForm
    /\ selectedMarket # NoMarket
    /\ Len(stale \o InFlight) <= MaxStale
    /\ \E response \in RaceResponses :
       \E next \in {Requested(page, selectedMarket, response)} :
          /\ page' = next.page
          /\ run' = next.run
    /\ stale' = [k \in DOMAIN (stale \o InFlight) |-> Detach((stale \o InFlight)[k])]
    /\ UNCHANGED <<markets, pc, batchStart, nodes, historyMap, i, j, loc,
                   candidateLinks, adjacency, capIdx, links, arg, ret,
                   classification, session, backtestResults, selectedMarket, widgets>>

\* an earlier call reads and dispatches a line
StaleReadEvent ==
    /\ pc = "page"
    /\ \E k \in DOMAIN stale :
          /\ stale[k].pc = "stream"
          /\ stale[k].rest # <<>>
          /\ \E next \in {Dispatched(page, stale[k], Head(stale[k].rest))} :
                /\ page' = next.page
                /\ stale' = [stale EXCEPT ![k] = next.run]
    /\ UNCHANGED <<markets, pc, batchStart, nodes, historyMap, i, j, loc,
                   candidateLinks, adjacency, capIdx, links, arg, ret,
                   classification, session, backtestResults, selectedMarket, run, widgets>>

\* the stream of an earlier call ends
StaleStreamEnds ==
    /\ pc = "page"
    /\ \E k \in DOMAIN stale :
          /\ stale[k].pc = "stream"
          /\ stale[k].rest = <<>>
          /\ \E next \in {Finished(page, stale[k].finalData)} :
                /\ page' = next.page
                /\ stale' = Put(stale, k, next.run)
          /\ backtestResults' = IF stale[k].finalData = Null THEN backtestResults
                                 ELSE stale[k].finalData
    /\ UNCHANGED <<markets, pc, batchStart, nodes, historyMap, i, j, loc,
                   candidateLinks, adjacency, capIdx, links, arg, ret,
                   classification, session, selectedMarket, run, widgets>>

\* the timer of an earlier call fires
StaleStoreAndShow ==
    /\ pc = "page"
    /\ \E k \in DOMAIN stale :
          /\ stale[k].pc = "wait"
          /\ stale' = Without(stale, k)
    /\ session' = Stored(page, backtestResults).session
    /\ page' = Stored(page, backtestResults).page
    /\ UNCHANGED <<markets, pc, batchStart, nodes, historyMap, i, j, loc,
                   candidateLinks, adjacency, capIdx, links, arg, ret,
                   classification, backtestResults, selectedMarket, run, widgets>>

\* the backtest page with a market picked from the dropdown
InitRuns ==
    /\ Idle
    /\ NoWidgets
    /\ pc = "page"
    /\ arg = <<>>
    /\ ret = <<>>
    /\ page = LoadedPage("backtest-main.js")
    /\ session = Null
    /\ backtestResults = Null
    /\ selectedMarket \in {m \in LeaderMarkets : m.clobTokenId # ""}
    /\ run = NoRun
    /\ stale = <<>>

NextRuns ==
    \/ StartRun \/ ReadEvent \/ StreamEnds \/ StoreAndShow
    \/ ClickRetry \/ ClickNewBacktest \/ Reload
    \/ StaleReadEvent \/ StaleStreamEnds \/ StaleStoreAndShow

SpecRuns == InitRuns /\ [][NextRuns]_vars

(***************************************************************************)
(* showResults on its own: the final data of an evaluation over followers  *)
(* that win, lose, have no price at the signal time or have a history that *)
(* ends before the longer horizons, handed to showResults of either        *)
(* script.                                                                 *)
(***************************************************************************)
\* formatPnl(val), main.js 627-632; toFixed(1) is left to the digits
formatPnl(val) ==
    IF val = Null THEN [text |-> [sign |-> "", digits |-> Null, unit |-> "N/A"],
                        cls |-> "text-slate-400"]
    ELSE [text |-> [sign |-> IF FLt(val, FZero) THEN "" ELSE "+", digits |-> val, unit |-> "%"],
          cls |-> IF FLt(val, FZero) THEN "pnl-negative" ELSE "pnl-positive"]

\* the follower that loses over a day, with those of FollowerPool
ResultFollowers ==
    FollowerPool \cup
    {[id |-> 24, isInverse |-> FALSE, history |-> Walk(1, 0, <<1, 1, 1, 1, 1, 2, 2, 2>>)]}

\* followers in one evaluation
MaxResults == 3

ResultLists ==
    {fs \in SeqsUpTo(ResultFollowers, MaxResults) :
        \A a, b \in DOMAIN fs : a # b => fs[a].id # fs[b].id}

\* showResults(data) with the final data of a run
ShowResults ==
    /\ pc = "results"
    /\ page' = showResults(page, backtestResults)
    /\ pc' = "shown"
    /\ UNCHANGED <<markets, batchStart, nodes, historyMap, i, j, loc,
                   candidateLinks, adjacency, capIdx, links, arg, ret,
                   classification, session, backtestResults, selectedMarket, run, stale, widgets>>

InitResults ==
    /\ Idle
    /\ NoWidgets
    /\ pc = "results"
    /\ arg = <<>>
    /\ ret = <<>>
    /\ \E script \in Scripts : page = LoadedPage(script)
    /\ session = Null
    /\ \E fs \in ResultLists : backtestResults = BacktestData(fs, SignalTime, "1d")
    /\ selectedMarket = NoMarket
    /\ run = NoRun
    /\ stale = <<>>

NextResults == ShowResults

SpecResults == InitResults /\ [][NextResults]_vars

(***************************************************************************)
(* The graph page's filters (ui.js, main.js, state.js).  state.allNodes    *)
(* and state.allLinks hold what loadData returned; state.nodes and         *)
(* state.links are what updateFilters leaves of them.  An end of a link is *)
(* an id until d3.forceLink (graph.js 46) has seen the link, and the node  *)
(* object of that id from then on: the link objects of state.links are     *)
(* those of state.allLinks, so the ends change in both.                    *)
(***************************************************************************)
GraphNode(id, category, volume) == [id |-> id, category |-> category, volume |-> volume]

IdEnd(id) == [object |-> FALSE, id |-> id]

ObjectEnd(node) == [object |-> TRUE, node |-> node]

GraphLink(a, b) == [source |-> IdEnd(a), target |-> IdEnd(b)]

\* typeof l.source === 'object' ? l.source.id : l.source
EndId(end) == IF end.object THEN end.node.id ELSE end.id

\* A variant of updateFilters that looks at the source of a link only.
updateFiltersBySource(st) ==
    LET Shown(n) == n.category \in st.filters.categories /\ n.volume >= st.filters.minVolume
        shown == SelectSeq(st.allNodes, Shown)
        nodeIds == {shown[k].id : k \in DOMAIN shown}
        Kept(l) == EndId(l.source) \in nodeIds
    IN  [st EXCEPT !.nodes = shown, !.links = SelectSeq(st.allLinks, Kept)]

\* ui.js 75-88
updateFilters(st) ==
    LET Shown(n) == n.category \in st.filters.categories /\ n.volume >= st.filters.minVolume
        shown == SelectSeq(st.allNodes, Shown)
        nodeIds == {shown[k].id : k \in DOMAIN shown}
        Kept(l) == EndId(l.source) \in nodeIds /\ EndId(l.target) \in nodeIds
    IN  [st EXCEPT !.nodes = shown, !.links = SelectSeq(st.allLinks, Kept)]

\* d3.forceLink(state.links).id(d => d.id): an end that is an id becomes the
\* node of the simulation with that id; a missing node throws
NodeFound(ns, id) == \E k \in DOMAIN ns : ns[k].id = id

NodeById(ns, id) == ns[CHOOSE k \in DOMAIN ns : ns[k].id = id]

ResolvedEnd(ns, end) == IF end.object THEN end ELSE ObjectEnd(NodeById(ns, end.id))

ResolvedLink(ns, l) == [source |-> ResolvedEnd(ns, l.source), target |-> ResolvedEnd(ns, l.target)]

Resolvable(ns, l) ==
    /\ l.source.object \/ NodeFound(ns, l.source.id)
    /\ l.target.object \/ NodeFound(ns, l.target.id)

InSeq(x, seq) == \E k \in DOMAIN seq : seq[k] = x

\* initVisualization(state, ...), graph.js 45-46, as far as it changes state
initVisualization(st) ==
    IF \E k \in DOMAIN st.links : ~Resolvable(st.nodes, st.links[k])
    THEN [st EXCEPT !.thrown = TRUE]
    ELSE [st EXCEPT
            !.links = [k \in DOMAIN st.links |-> ResolvedLink(st.nodes, st.links[k])],
            !.allLinks = [k \in DOMAIN st.allLinks |->
                            IF InSeq(st.allLinks[k], st.links)
                            THEN ResolvedLink(st.nodes, st.allLinks[k])
                            ELSE st.allLinks[k]]]

\* toggleCategory(cat, btn, state, onFilterChange), ui.js 53-73, with the
\* onFilterChange of main.js 49-52
toggleCategory(st, cat) ==
    LET isActive == cat \in st.filters.categories
        toggled == [st EXCEPT !.filters.categories =
                                 IF isActive THEN @ \ {cat} ELSE @ \cup {cat}]
    IN  initVisualization(updateFilters(toggled))

\* the slider's input listener, ui.js 54-60 of initUI
slideVolume(st, val) ==
    initVisualization(updateFilters([st EXCEPT !.filters.minVolume = val]))

\* Array.from(new Set(state.allNodes.map(n => n.category)))
CategoriesOf(ns) == {ns[k].category : k \in DOMAIN ns}

\* state.js with the data of loadData in it, then main.js 76-85: initUI
\* enables every category found, updateFilters, initVisualization
LoadedGraph(ns, ls) ==
    initVisualization(updateFilters(
        [allNodes |-> ns, allLinks |-> ls, nodes |-> <<>>, links |-> <<>>,
         filters |-> [categories |-> CategoriesOf(ns), minVolume |-> 0],
         thrown |-> FALSE]))

\* positions of the volume slider
VolumeStops == {0, 1, 2, 3}

GraphNodeLists ==
    { << GraphNode(1, "Politics", 3), GraphNode(2, "Sports", 1),
         GraphNode(3, "Politics", 2), GraphNode(4, "Other", 2) >>,
      << GraphNode(1, "Crypto", 1), GraphNode(2, "Crypto", 3),
         GraphNode(3, "Sports", 2), GraphNode(4, "Crypto", 2) >> }

GraphLinkLists ==
    { << GraphLink(1, 2), GraphLink(1, 3), GraphLink(2, 4), GraphLink(3, 4) >>,
      << GraphLink(3, 1), GraphLink(4, 1) >>,
      << GraphLink(2, 3) >> }

ToggleCategory ==
    /\ pc = "graph"
    /\ ~state.thrown
    /\ \E cat \in CategoriesOf(state.allNodes) : state' = toggleCategory(state, cat)
    /\ UNCHANGED <<markets, pc, batchStart, nodes, historyMap, i, j, loc,
                   candidateLinks, adjacency, capIdx, links, arg, ret,
                   classification, backtest, tooltip, search, stream>>

SlideVolume ==
    /\ pc = "graph"
    /\ ~state.thrown
    /\ \E val \in VolumeStops : state' = slideVolume(state, val)
    /\ UNCHANGED <<markets, pc, batchStart, nodes, historyMap, i, j, loc,
                   candidateLinks, adjacency, capIdx, links, arg, ret,
                   classification, backtest, tooltip, search, stream>>

InitFilters ==
    /\ Idle
    /\ NoPage
    /\ pc = "graph"
    /\ arg = <<>>
    /\ ret = <<>>
    /\ \E ns \in GraphNodeLists, ls \in GraphLinkLists : state = LoadedGraph(ns, ls)
    /\ tooltip = <<>>
    /\ search = <<>>
    /\ stream = <<>>

NextFilters == ToggleCategory \/ SlideVolume

SpecFilters == InitFilters /\ [][NextFilters]_vars

(***************************************************************************)
(* The tooltip of the graph page (ui.js 169-238).  hideTimeout is 0 while  *)
(* it is undefined or null, and the id of a timer otherwise; grace holds   *)
(* the ids of the 100 ms timers that are pending, nested the number of     *)
(* pending 200 ms timers, frames the number of pending animation frame     *)
(* callbacks.  The element carries the class hidden or not, and is opaque  *)
(* (opacity-100) or not (opacity-0).  Timers and frames fire in any order  *)
(* once they are pending.                                                  *)
(***************************************************************************)
\* calls of hideTooltip in one behaviour
MaxHides == 3

\* animation frame callbacks pending at once
MaxFrames == 2

NoTooltip ==
    [hidden |-> TRUE, opaque |-> FALSE, hideTimeout |-> 0, grace |-> {}, nested |-> 0,
     frames |-> 0, timers |-> 0, lastCall |-> "none"]

\* showTooltip(event, d), ui.js 171-200
showTooltip(tt) ==
    [tt EXCEPT !.grace = IF tt.hideTimeout # 0 THEN @ \ {tt.hideTimeout} ELSE @,
               !.hideTimeout = 0,
               !.hidden = FALSE,
               !.frames = @ + 1,
               !.lastCall = "show"]

\* hideTooltip(), ui.js 224-238: setTimeout returns a fresh id
hideTooltip(tt) ==
    [tt EXCEPT !.timers = @ + 1,
               !.hideTimeout = tt.timers + 1,
               !.grace = @ \cup {tt.timers + 1},
               !.lastCall = "hide"]

\* the callback of the 100 ms timer, ui.js 226-237
graceCallback(tt, id) ==
    [tt EXCEPT !.grace = @ \ {id}, !.opaque = FALSE, !.nested = @ + 1]

\* the callback of the 200 ms timer, ui.js 232-236
nestedCallback(tt) ==
    [tt EXCEPT !.nested = @ - 1, !.hidden = IF tt.hideTimeout # 0 THEN TRUE ELSE @]

\* the callback of requestAnimationFrame, ui.js 196-199
frameCallback(tt) == [tt EXCEPT !.frames = @ - 1, !.opaque = TRUE]

ShowTooltip ==
    /\ pc = "tooltip"
    /\ tooltip.frames < MaxFrames
    /\ tooltip' = showTooltip(tooltip)
    /\ UNCHANGED <<markets, pc, batchStart, nodes, historyMap, i, j, loc,
                   candidateLinks, adjacency, capIdx, links, arg, ret,
                   classification, backtest, state, search, stream>>

HideTooltip ==
    /\ pc = "tooltip"
    /\ tooltip.timers < MaxHides
    /\ tooltip' = hideTooltip(tooltip)
    /\ UNCHANGED <<markets, pc, batchStart, nodes, historyMap, i, j, loc,
                   candidateLinks, adjacency, capIdx, links, arg, ret,
                   classification, backtest, state, search, stream>>

GraceTimerFires ==
    /\ pc = "tooltip"
    /\ \E id \in tooltip.grace : tooltip' = graceCallback(tooltip, id)
    /\ UNCHANGED <<markets, pc, batchStart, nodes, historyMap, i, j, loc,
                   candidateLinks, adjacency, capIdx, links, arg, ret,
                   classification, backtest, state, search, stream>>

NestedTimerFires ==
    /\ pc = "tooltip"
    /\ tooltip.nested > 0
    /\ tooltip' = nestedCallback(tooltip)
    /\ UNCHANGED <<markets, pc, batchStart, nodes, historyMap, i, j, loc,
                   candidateLinks, adjacency, capIdx, links, arg, ret,
                   classification, backtest, state, search, stream>>

FramePaints ==
    /\ pc = "tooltip"
    /\ tooltip.frames > 0
    /\ tooltip' = frameCallback(tooltip)
    /\ UNCHANGED <<markets, pc, batchStart, nodes, historyMap, i, j, loc,
                   candidateLinks, adjacency, capIdx, links, arg, ret,
                   classification, backtest, state, search, stream>>

InitTooltip ==
    /\ Idle
    /\ NoPage
    /\ pc = "tooltip"
    /\ arg = <<>>
    /\ ret = <<>>
    /\ state = <<>>
    /\ tooltip = NoTooltip
    /\ search = <<>>
    /\ stream = <<>>

NextTooltip ==
    ShowTooltip \/ HideTooltip \/ GraceTimerFires \/ NestedTimerFires \/ FramePaints

SpecTooltip == InitTooltip /\ [][NextTooltip]_vars

(***************************************************************************)
(* The read loop of the streaming clients (backtest-main.js 308-349,       *)
(* main.js 552-598, discover-main.js 439-480).  The body of the response   *)
(* is a text of characters; reader.read() hands over the next characters   *)
(* in chunks of any length, and the decoder leaves these one-byte          *)
(* characters as they are.  A line is the text of a step event, of a done  *)
(* event, or something else.                                               *)
(***************************************************************************)
NewLine == "\n"

StepText == <<"{", "s", "}">>

DoneText == <<"{", "d", "}">>

\* lines a server may send: events, events with spaces around them, blank
\* lines, a cut-off event and two events on one line
LineTexts ==
    { StepText, DoneText, <<>>, <<" ">>, <<"{", "s">>, <<" ">> \o StepText,
      StepText \o DoneText }

\* lines in one response
MaxLines == 2

RECURSIVE JoinLines(_)
JoinLines(ls) ==
    IF Len(ls) = 0 THEN <<>>
    ELSE IF Len(ls) = 1 THEN ls[1]
    ELSE ls[1] \o <<NewLine>> \o JoinLines(Tail(ls))

\* the lines joined by newlines, with or without a newline after the last
StreamTexts ==
    UNION {{JoinLines(ls), JoinLines(ls) \o <<NewLine>>} :
              ls \in UNION {[1..n -> LineTexts] : n \in 0..MaxLines}}

\* buffer.split('\n'): the pieces between the newlines, one more than
\* there are newlines
RECURSIVE SplitFrom(_, _, _)
SplitFrom(text, k, piece) ==
    IF k > Len(text) THEN <<piece>>
    ELSE IF text[k] = NewLine THEN <<piece>> \o SplitFrom(text, k + 1, <<>>)
    ELSE SplitFrom(text, k + 1, Append(piece, text[k]))

Split(text) == SplitFrom(text, 1, <<>>)

\* line.trim()
RECURSIVE TrimStart(_)
TrimStart(line) ==
    IF line # <<>> /\ Head(line) = " " THEN TrimStart(Tail(line)) ELSE line

RECURSIVE TrimEnd(_)
TrimEnd(line) ==
    IF line # <<>> /\ line[Len(line)] = " " THEN TrimEnd(SubSeq(line, 1, Len(line) - 1))
    ELSE line

Trim(line) == TrimEnd(TrimStart(line))

\* JSON.parse(line).type, or "none" where JSON.parse throws: white space
\* around the value is allowed, anything else is not
EventType(line) ==
    IF Trim(line) = StepText THEN "step"
    ELSE IF Trim(line) = DoneText THEN "done"
    ELSE "none"

\* the for loop over the complete lines: blank and unparseable lines are
\* skipped, the others dispatched in turn
RECURSIVE DispatchLines(_, _)
DispatchLines(st, lines) ==
    IF lines = <<>> THEN st
    ELSE IF Trim(Head(lines)) = <<>> \/ EventType(Head(lines)) = "none"
    THEN DispatchLines(st, Tail(lines))
    ELSE DispatchLines([st EXCEPT !.dispatched = Append(@, EventType(Head(lines))),
                                  !.finalData = IF EventType(Head(lines)) = "done"
                                                THEN TRUE ELSE @],
                       Tail(lines))

\* one turn of the while loop with a chunk read: the last piece of the
\* split stays in the buffer
ChunkRead(st, n) ==
    LET lines == Split(st.buffer \o SubSeq(st.rest, 1, n))
    IN  [DispatchLines(st, SubSeq(lines, 1, Len(lines) - 1)) EXCEPT
            !.buffer = lines[Len(lines)],
            !.rest = SubSeq(st.rest, n + 1, Len(st.rest))]

\* A variant of ChunkRead that forgets the buffer between chunks.
ChunkReadUnbuffered(st, n) ==
    LET lines == Split(SubSeq(st.rest, 1, n))
    IN  [DispatchLines(st, SubSeq(lines, 1, Len(lines) - 1)) EXCEPT
            !.buffer = lines[Len(lines)],
            !.rest = SubSeq(st.rest, n + 1, Len(st.rest))]

OpenStream(text) ==
    [pc |-> "reading", sent |-> text, rest |-> text, buffer |-> <<>>,
     dispatched |-> <<>>, finalData |-> FALSE]

\* const { done, value } = await reader.read() with done false
ReadChunk ==
    /\ pc = "client"
    /\ stream.pc = "reading"
    /\ \E n \in 1..Len(stream.rest) : stream' = ChunkRead(stream, n)
    /\ UNCHANGED <<markets, pc, batchStart, nodes, historyMap, i, j, loc,
                   candidateLinks, adjacency, capIdx, links, arg, ret,
                   classification, backtest, state, tooltip, search>>

\* reader.read() with done true: break, whatever the buffer holds
ReadDone ==
    /\ pc = "client"
    /\ stream.pc = "reading"
    /\ stream.rest = <<>>
    /\ stream' = [stream EXCEPT !.pc = "ended"]
    /\ UNCHANGED <<markets, pc, batchStart, nodes, historyMap, i, j, loc,
                   candidateLinks, adjacency, capIdx, links, arg, ret,
                   classification, backtest, state, tooltip, search>>

InitStream ==
    /\ Idle
    /\ NoPage
    /\ pc = "client"
    /\ arg = <<>>
    /\ ret = <<>>
    /\ state = <<>>
    /\ tooltip = <<>>
    /\ search = <<>>
    /\ \E text \in StreamTexts : stream = OpenStream(text)

NextStream == ReadChunk \/ ReadDone

SpecStream == InitStream /\ [][NextStream]_vars

(***************************************************************************)
(* The market search box of the backtest page (backtest-main.js 18-58).    *)
(* value is the text of the input, timer the query the pending 300 ms      *)
(* timer was set with (in a one-element sequence, empty when none is       *)
(* pending), requests the fetches issued so far in order, each pending,    *)
(* answered or failed; shown is the number of the request whose result     *)
(* list is the innerHTML of the results box (0: empty), hidden the class   *)
(* of the box.  Responses arrive in any order.                             *)
(***************************************************************************)
\* input events in one behaviour
MaxTyped == 3

InputValues ==
    { <<>>, <<"a">>, <<"a", "b">>, <<"a", "b", "c">>, <<" ", "a", " ">>, <<"a", "b", " ">> }

EmptySearch ==
    [value |-> <<>>, timer |-> <<>>, requests |-> <<>>, shown |-> 0, hidden |-> TRUE,
     typed |-> 0]

\* the input listener, backtest-main.js 18-27 and 29, 56
typed(sr, value) ==
    LET query == Trim(value)
    IN  IF Len(query) < 2
        THEN [sr EXCEPT !.value = value, !.timer = <<>>, !.hidden = TRUE, !.shown = 0,
                        !.typed = @ + 1]
        ELSE [sr EXCEPT !.value = value, !.timer = <<query>>, !.typed = @ + 1]

\* the timer's callback up to its first await, backtest-main.js 29-31
requested(sr) ==
    [sr EXCEPT !.timer = <<>>,
               !.requests = Append(@, [query |-> sr.timer[1], status |-> "pending"])]

\* the rest of the callback once the response is there, backtest-main.js
\* 32-52
answered(sr, n) ==
    [sr EXCEPT !.requests[n].status = "answered", !.shown = n, !.hidden = FALSE]

\* fetch or response.json() rejects: the catch, backtest-main.js 53-55
failed(sr, n) == [sr EXCEPT !.requests[n].status = "failed"]

TypeQuery ==
    /\ pc = "search"
    /\ search.typed < MaxTyped
    /\ \E value \in InputValues \ {search.value} : search' = typed(search, value)
    /\ UNCHANGED <<markets, pc, batchStart, nodes, historyMap, i, j, loc,
                   candidateLinks, adjacency, capIdx, links, arg, ret,
                   classification, backtest, state, tooltip, stream>>

DebounceTimerFires ==
    /\ pc = "search"
    /\ search.timer # <<>>
    /\ search' = requested(search)
    /\ UNCHANGED <<markets, pc, batchStart, nodes, historyMap, i, j, loc,
                   candidateLinks, adjacency, capIdx, links, arg, ret,
                   classification, backtest, state, tooltip, stream>>

SearchResponds ==
    /\ pc = "search"
    /\ \E n \in DOMAIN search.requests :
          /\ search.requests[n].status = "pending"
          /\ search' \in {answered(search, n), failed(search, n)}
    /\ UNCHANGED <<markets, pc, batchStart, nodes, historyMap, i, j, loc,
                   candidateLinks, adjacency, capIdx, links, arg, ret,
                   classification, backtest, state, tooltip, stream>>

\* a click outside the box and the input, backtest-main.js 77-81
ClickOutside ==
    /\ pc = "search"
    /\ ~search.hidden
    /\ search' = [search EXCEPT !.hidden = TRUE]
    /\ UNCHANGED <<markets, pc, batchStart, nodes, historyMap, i, j, loc,
                   candidateLinks, adjacency, capIdx, links, arg, ret,
                   classification, backtest, state, tooltip, stream>>

InitSearch ==
    /\ Idle
    /\ NoPage
    /\ pc = "search"
    /\ arg = <<>>
    /\ ret = <<>>
    /\ state = <<>>
    /\ tooltip = <<>>
    /\ search = EmptySearch
    /\ stream = <<>>

NextSearch == TypeQuery \/ DebounceTimerFires \/ SearchResponds \/ ClickOutside

SpecSearch == InitSearch /\ [][NextSearch]_vars

(***************************************************************************)
(* What the properties of loadData are stated in.                          *)
(***************************************************************************)
NodeIds == {nodes[n].id : n \in DOMAIN nodes}

TimesOf(history) == {history[k].t : k \in DOMAIN history}

SharedTimestamps(a, b) == TimesOf(historyMap[a]) \cap TimesOf(historyMap[b])

\* the prices of market a at the timestamps it shares with market b
SharedPrices(a, b) ==
    {historyMap[a][k].p :
        k \in {n \in DOMAIN historyMap[a] :
                  historyMap[a][n].t \in SharedTimestamps(a, b)}}

HasLink(a, b) ==
    \E l \in DOMAIN candidateLinks :
        candidateLinks[l].source = a /\ candidateLinks[l].target = b

\* the returns of market a over the timestamps it shares with market b
SharedReturns(a, b) ==
    calculateLogReturns(alignByTimestamp(historyMap[a], historyMap[b]).pricesA)

SharedCorrelation(a, b) ==
    calculateCorrelation(SharedReturns(a, b), SharedReturns(b, a))

\* the last executed body of the pair loop got past the alignment gate
PastAlignment == loc.a # 0 /\ loc.points >= 10

\* ... and past the variance gate
PastVariance ==
    /\ PastAlignment
    /\ ~FLt(loc.varianceA, F0_001)
    /\ ~FLt(loc.varianceB, F0_001)

ProbabilityOf(id) == nodes[CHOOSE n \in DOMAIN nodes : nodes[n].id = id].probability

Incident(v) ==
    {l \in DOMAIN candidateLinks :
        candidateLinks[l].source = v \/ candidateLinks[l].target = v}

Other(l, v) ==
    IF candidateLinks[l].source = v
    THEN candidateLinks[l].target ELSE candidateLinks[l].source

\* link m is ahead of link l in the order of strength: a larger
\* |correlation|, or the same and created earlier
Ahead(m, l) ==
    \/ FGt(FAbs(candidateLinks[m].correlation), FAbs(candidateLinks[l].correlation))
    \/ /\ FEq(FAbs(candidateLinks[m].correlation), FAbs(candidateLinks[l].correlation))
       /\ m < l

\* link l is among the 10 strongest candidate links incident to node v
InTopK(l, v) == Cardinality({m \in Incident(v) \ {l} : Ahead(m, l)}) < 10

IsPublished(l) == \E k \in DOMAIN links : links[k] = candidateLinks[l]

Published(v) == {l \in Incident(v) : IsPublished(l)}

(***************************************************************************)
(* Properties of loadData (specification Spec).                            *)
(***************************************************************************)
\* C1: a pair of markets whose histories share fewer than 10 timestamps
\* never produces a candidate link: every candidate link joins two markets
\* that share at least 10, and a body of the pair loop run on a pair that
\* shares fewer leaves at the minimum-points gate, without a link, whatever
\* the correlation over the shared points is.
MinimumPointsGate ==
    /\ \A l \in DOMAIN candidateLinks :
          Cardinality(SharedTimestamps(candidateLinks[l].source,
                                       candidateLinks[l].target)) >= 10
    /\ (loc.a # 0 /\ Cardinality(SharedTimestamps(loc.a, loc.b)) < 10)
          => (loc.exit = "points" /\ ~HasLink(loc.a, loc.b))

\* a pair sharing 9 timestamps, perfectly correlated over them, was rejected
MinimumPointsGateWitness ==
    /\ loc.exit = "points"
    /\ loc.points = 9
    /\ Cardinality(SharedTimestamps(loc.a, loc.b)) = 9
    /\ ~HasLink(loc.a, loc.b)
    /\ FEq(SharedCorrelation(loc.a, loc.b), FOne)

\* C2: a pair is rejected whenever the variance of the log returns of
\* either market is below 0.001, whatever the other market and the
\* correlation are; and no candidate link joins a market whose prices at the
\* shared timestamps are constant.
VarianceGate ==
    /\ (PastAlignment /\ (FLt(loc.varianceA, F0_001) \/ FLt(loc.varianceB, F0_001)))
          => (loc.exit = "stagnant" /\ ~HasLink(loc.a, loc.b))
    /\ \A l \in DOMAIN candidateLinks :
          /\ Cardinality(SharedPrices(candidateLinks[l].source,
                                      candidateLinks[l].target)) > 1
          /\ Cardinality(SharedPrices(candidateLinks[l].target,
                                      candidateLinks[l].source)) > 1

\* a pair was rejected for the low (non-zero) variance of one market alone,
\* although the returns correlate beyond the threshold
VarianceGateWitness ==
    /\ loc.exit = "stagnant"
    /\ FLt(loc.varianceA, F0_001)
    /\ ~IsZero(loc.varianceA)
    /\ ~FLt(loc.varianceB, F0_001)
    /\ ~HasLink(loc.a, loc.b)
    /\ FGt(FAbs(SharedCorrelation(loc.a, loc.b)), F0_5)

\* C3: a pair that passed the alignment and variance gates yields a
\* candidate link if and only if |r| > 0.5 for the correlation r of its
\* log returns; with |r| = 0.5 or less there is no link.  The link carries r.
CorrelationThreshold ==
    PastVariance =>
        /\ HasLink(loc.a, loc.b) <=> FGt(FAbs(loc.correlation), F0_5)
        /\ HasLink(loc.a, loc.b) =>
              candidateLinks[Len(candidateLinks)] =
                  [source |-> loc.a, target |-> loc.b,
                   correlation |-> loc.correlation,
                   isInverse |-> candidateLinks[Len(candidateLinks)].isInverse,
                   inefficiency |-> candidateLinks[Len(candidateLinks)].inefficiency,
                   keep |-> candidateLinks[Len(candidateLinks)].keep]

\* a pair with |r| = 0.5 exactly passed the gates and was rejected
CorrelationThresholdWitness ==
    /\ PastVariance
    /\ FEq(FAbs(loc.correlation), F0_5)
    /\ ~HasLink(loc.a, loc.b)

\* C4: every candidate link has inefficiency "High" exactly when
\* |correlation| > 0.6 and |probabilityA - probabilityB| > 0.3, and "Low"
\* otherwise.
InefficiencyRule ==
    \A l \in DOMAIN candidateLinks :
        candidateLinks[l].inefficiency =
            IF /\ FGt(FAbs(candidateLinks[l].correlation), F0_6)
               /\ FGt(FAbs(FSub(ProbabilityOf(candidateLinks[l].source),
                                ProbabilityOf(candidateLinks[l].target))), F0_3)
            THEN "High" ELSE "Low"

\* there are a "High" link, a "Low" link that fails the correlation test
\* only, and a "Low" link that fails the probability test only
InefficiencyRuleWitness ==
    /\ \E l \in DOMAIN candidateLinks : candidateLinks[l].inefficiency = "High"
    /\ \E l \in DOMAIN candidateLinks :
          /\ candidateLinks[l].inefficiency = "Low"
          /\ ~FGt(FAbs(candidateLinks[l].correlation), F0_6)
          /\ FGt(FAbs(FSub(ProbabilityOf(candidateLinks[l].source),
                           ProbabilityOf(candidateLinks[l].target))), F0_3)
    /\ \E l \in DOMAIN candidateLinks :
          /\ candidateLinks[l].inefficiency = "Low"
          /\ FGt(FAbs(candidateLinks[l].correlation), F0_6)
          /\ ~FGt(FAbs(FSub(ProbabilityOf(candidateLinks[l].source),
                            ProbabilityOf(candidateLinks[l].target))), F0_3)

\* C5: a candidate link has keep = false until the capper runs, and when
\* loadData is done a candidate link is published (kept, and so among the
\* returned links) if and only if it is among the 10 strongest candidate
\* links of its source or of its target.
PublishedIffTopKOfEither ==
    /\ pc \in {"fetch", "scan"} =>
          \A l \in DOMAIN candidateLinks : ~candidateLinks[l].keep
    /\ pc = "done" =>
          /\ \A l \in DOMAIN candidateLinks :
                /\ candidateLinks[l].keep <=>
                      (\/ InTopK(l, candidateLinks[l].source)
                       \/ InTopK(l, candidateLinks[l].target))
                /\ candidateLinks[l].keep <=> IsPublished(l)
          /\ \A k \in DOMAIN links :
                \E l \in DOMAIN candidateLinks : links[k] = candidateLinks[l]

\* loadData is done: a link is published although it is among the 10
\* strongest of one endpoint only, and a link is not published
PublishedIffTopKOfEitherWitness ==
    /\ pc = "done"
    /\ \E l \in DOMAIN candidateLinks :
          /\ IsPublished(l)
          /\ InTopK(l, candidateLinks[l].source)
          /\ ~InTopK(l, candidateLinks[l].target)
    /\ \E l \in DOMAIN candidateLinks : ~IsPublished(l)

\* C6: when loadData is done, at most 10 of the published links of a node
\* are not published solely for being among the 10 strongest of their other
\* endpoint: a node has more than 10 published links only through those.
FanOutCap ==
    pc = "done" =>
        \A v \in NodeIds :
            Cardinality({l \in Published(v) :
                            InTopK(l, v) \/ ~InTopK(l, Other(l, v))}) <= 10

\* a node has more than 10 published links
FanOutCapWitness ==
    /\ pc = "done"
    /\ \E v \in NodeIds : Cardinality(Published(v)) > 10

(***************************************************************************)
(* Property of loadData on any market list (specification SpecDup).        *)
(***************************************************************************)
DistinctIds ==
    \A m, n \in DOMAIN nodes : m # n => nodes[m].id # nodes[n].id

SimpleGraph ==
    /\ \A l \in DOMAIN candidateLinks :
          candidateLinks[l].source # candidateLinks[l].target
    /\ \A l, m \in DOMAIN candidateLinks :
          l # m => {candidateLinks[l].source, candidateLinks[l].target}
                      # {candidateLinks[m].source, candidateLinks[m].target}

\* What the scan guarantees: when the ids of the nodes are pairwise
\* distinct, every candidate link has source # target and no two candidate
\* links join the same unordered pair of markets.
SimpleGraphOfDistinctNodes == DistinctIds => SimpleGraph

\* the scan of a list of distinct nodes is over and left several links
SimpleGraphOfDistinctNodesWitness ==
    /\ DistinctIds
    /\ pc = "done"
    /\ Len(nodes) >= 3
    /\ Len(candidateLinks) >= 3

\* C7: for any list of nodes given to the pair scan, every candidate link
\* has source # target and no two candidate links join the same unordered
\* pair of markets.  A market list that names one market twice refutes it.
SimpleGraphOfAnyNodes == SimpleGraph

(***************************************************************************)
(* Properties of alignByTimestamp (specification SpecAlign).               *)
(***************************************************************************)
NoDuplicateTimes(history) ==
    \A m, n \in DOMAIN history : m # n => history[m].t # history[n].t

\* C8: alignByTimestamp returns pricesA and pricesB of equal length, and at
\* every index pricesA holds the price of a point of historyA and pricesB
\* the price of a point of historyB with the same timestamp.
AlignmentCorrect ==
    pc = "alignReturn" =>
        /\ Len(ret.pricesA) = Len(ret.pricesB)
        /\ \A k \in DOMAIN ret.pricesA :
              \E a \in DOMAIN arg.historyA, b \in DOMAIN arg.historyB :
                  /\ arg.historyA[a].t = arg.historyB[b].t
                  /\ arg.historyA[a].p = ret.pricesA[k]
                  /\ arg.historyB[b].p = ret.pricesB[k]

\* an alignment of several points, of histories that repeat a timestamp
\* and hold a point without a partner
AlignmentCorrectWitness ==
    /\ pc = "alignReturn"
    /\ Len(ret.pricesA) >= 2
    /\ ~NoDuplicateTimes(arg.historyB)
    /\ Len(ret.pricesA) < Len(arg.historyA)

\* C9: for histories without repeated timestamps the result holds one entry
\* for each timestamp present in both histories and no other entry, in the
\* order of historyA, the timestamps matched exactly; without a shared
\* timestamp both arrays are empty.
ExactMatching ==
    (pc = "alignReturn" /\ NoDuplicateTimes(arg.historyA)
                        /\ NoDuplicateTimes(arg.historyB)) =>
        /\ Len(ret.pricesA) =
              Cardinality(TimesOf(arg.historyA) \cap TimesOf(arg.historyB))
        /\ Len(ret.pricesB) = Len(ret.pricesA)
        /\ \A a \in DOMAIN arg.historyA :
              arg.historyA[a].t \in TimesOf(arg.historyB) =>
                  \E b \in DOMAIN arg.historyB :
                      /\ arg.historyB[b].t = arg.historyA[a].t
                      /\ ret.pricesA[Cardinality({m \in 1..a :
                             arg.historyA[m].t \in TimesOf(arg.historyB)})]
                            = arg.historyA[a].p
                      /\ ret.pricesB[Cardinality({m \in 1..a :
                             arg.historyA[m].t \in TimesOf(arg.historyB)})]
                            = arg.historyB[b].p

\* histories without repeated timestamps that share two timestamps, in
\* different orders, beside a timestamp of historyA that historyB misses by 1
ExactMatchingWitness ==
    /\ pc = "alignReturn"
    /\ NoDuplicateTimes(arg.historyA)
    /\ NoDuplicateTimes(arg.historyB)
    /\ Len(ret.pricesA) = 2
    /\ Len(arg.historyA) = 3
    /\ \E a, b \in DOMAIN arg.historyB :
          /\ a < b
          /\ \E m, n \in DOMAIN arg.historyA :
                /\ m > n
                /\ arg.historyA[m].t = arg.historyB[a].t
                /\ arg.historyA[n].t = arg.historyB[b].t

(***************************************************************************)
(* Property of calculateCorrelation (specification SpecCorr).              *)
(***************************************************************************)
IsConstant(x) == \A m, n \in DOMAIN x : x[m] = x[n]

\* C10 as stated: calculateCorrelation returns exactly 0 when the inputs
\* have different lengths, when they are empty, and when either of them is
\* constant.
DegenerateGuard ==
    (pc = "corrReturn" /\ (\/ Len(arg.x) # Len(arg.y)
                           \/ Len(arg.x) = 0
                           \/ IsConstant(arg.x)
                           \/ IsConstant(arg.y))) =>
        ret = FZero

\* C11: for all equal-length, non-empty inputs the value calculateCorrelation
\* returns lies in [-1, 1].  Two constant series refute it: the value is NaN.
CorrelationBounds ==
    (pc = "corrReturn" /\ Len(arg.x) = Len(arg.y) /\ Len(arg.x) > 0) =>
        /\ ~IsNaN(ret)
        /\ FCmp(ret, FMinusOne) >= 0
        /\ FCmp(ret, FOne) <= 0

SelfCorrelation ==
    (pc = "corrReturn" /\ ~IsConstant(arg.x)) =>
        /\ (arg.y = arg.x => ret = FOne)
        /\ (arg.y = Negated(arg.x) => ret = FMinusOne)

\* what does hold: on the series without the two close values
SelfCorrelationOfSpreadValues ==
    (pc = "corrReturn" /\ ~IsConstant(arg.x)
        /\ ~({FOne, FOnePlus} \subseteq {arg.x[k] : k \in DOMAIN arg.x})) =>
        /\ (arg.y = arg.x => ret = FOne)
        /\ (arg.y = Negated(arg.x) => ret = FMinusOne)

(***************************************************************************)
(* Property of calculateLogReturns (specification SpecReturns).            *)
(***************************************************************************)
\* C14: for every price array calculateLogReturns returns an array of
\* length max(0, len(prices) - 1), and the empty array when len(prices) < 2.
LogReturnsLength ==
    pc = "returnsReturn" =>
        /\ Len(ret) = (IF Len(arg.prices) >= 1 THEN Len(arg.prices) - 1 ELSE 0)
        /\ (Len(arg.prices) < 2 => ret = <<>>)

\* an array of three prices or more gave one return fewer
LogReturnsLengthWitness ==
    /\ pc = "returnsReturn"
    /\ Len(arg.prices) >= 3
    /\ Len(ret) = Len(arg.prices) - 1
    /\ \E k \in DOMAIN ret : ~IsZero(ret[k])

(***************************************************************************)
(* Property of the pair evaluation run again on the same inputs            *)
(* (specification SpecDup: a market that is in the list twice has every    *)
(* pair with a later market evaluated twice, at different points of the    *)
(* scan).                                                                  *)
(***************************************************************************)
\* the executions of the pair loop body on (a market s, a market t)
Evaluations(s, t) ==
    {p \in (DOMAIN nodes) \X (DOMAIN nodes) :
        p[1] < p[2] /\ nodes[p[1]].id = s /\ nodes[p[2]].id = t}

LinksOf(s, t) ==
    {l \in DOMAIN candidateLinks :
        candidateLinks[l].source = s /\ candidateLinks[l].target = t}

\* C15: evaluating a pair again on identical market inputs gives the
\* identical result: the same decision (after the scan, a pair has a link
\* for every one of its evaluations or for none) and, when accepted, links
\* with the same source, target, correlation, isInverse and inefficiency.
PairEvaluationRepeats ==
    /\ \A l, m \in DOMAIN candidateLinks :
          (/\ candidateLinks[l].source = candidateLinks[m].source
           /\ candidateLinks[l].target = candidateLinks[m].target) =>
              /\ candidateLinks[l].correlation = candidateLinks[m].correlation
              /\ candidateLinks[l].isInverse = candidateLinks[m].isInverse
              /\ candidateLinks[l].inefficiency = candidateLinks[m].inefficiency
    /\ pc \in {"cap", "done"} =>
          \A s, t \in NodeIds :
              Cardinality(LinksOf(s, t)) \in {0, Cardinality(Evaluations(s, t))}

\* the scan is over; one pair was evaluated twice and accepted, with a
\* "High" link of another pair made between its two evaluations, and one
\* pair was evaluated twice and rejected
PairEvaluationRepeatsWitness ==
    /\ pc = "done"
    /\ \E l, m, h \in DOMAIN candidateLinks :
          /\ l < h /\ h < m
          /\ candidateLinks[l].source = candidateLinks[m].source
          /\ candidateLinks[l].target = candidateLinks[m].target
          /\ candidateLinks[l].inefficiency = "Low"
          /\ candidateLinks[h].inefficiency = "High"
    /\ \E s, t \in NodeIds :
          Cardinality(Evaluations(s, t)) = 2 /\ LinksOf(s, t) = {}

(***************************************************************************)
(* Properties of loadData on markets whose history request fails           *)
(* (specifications Spec and FairSpec).                                     *)
(***************************************************************************)
\* the market's history request gave an array
HasHistoryArray(m) == m.response = "ok"

\* C16: a market whose price history is missing or null gives no link: it
\* is no node, it has no entry in historyMap, and no candidate link names
\* it; and alignByTimestamp is never called on a missing history: every
\* node has its history array in historyMap.
MissingHistoryExcluded ==
    /\ \A k \in DOMAIN markets :
          ~HasHistoryArray(markets[k]) =>
              /\ markets[k].id \notin NodeIds
              /\ markets[k].id \notin DOMAIN historyMap
              /\ \A l \in DOMAIN candidateLinks :
                    /\ candidateLinks[l].source # markets[k].id
                    /\ candidateLinks[l].target # markets[k].id
    /\ \A n \in DOMAIN nodes :
          /\ nodes[n].id \in DOMAIN historyMap
          /\ Len(historyMap[nodes[n].id]) > 10

\* loadData returned links for a market list in which one history request
\* failed and one response had no history field
MissingHistoryExcludedWitness ==
    /\ pc = "done"
    /\ \E k \in DOMAIN markets : markets[k].response = "error"
    /\ \E k \in DOMAIN markets : markets[k].response = "noHistory"
    /\ Len(links) > 0

\* the markets whose history has more than 10 points
UsableIds ==
    {markets[k].id : k \in {n \in DOMAIN markets :
        HasHistoryArray(markets[n]) /\ Len(markets[n].history) > 10}}

\* C17: if the history fetch of a market fails, loadData does not abort:
\* once the batch loop is over the nodes are exactly the markets whose
\* history has more than 10 points, those of the same and of later batches
\* included; the pair scan runs over all of them; and loadData returns.
LoadSurvivesFailedFetch ==
    /\ [](/\ pc \in {"fetch", "scan", "cap", "done"}
          /\ (pc = "fetch" /\ batchStart >= Len(markets) => NodeIds = UsableIds)
          /\ (pc # "fetch" => NodeIds = UsableIds)
          /\ (pc \in {"cap", "done"} /\ Len(nodes) >= 2 => i = Len(nodes)))
    /\ <>(pc = "done")

\* loadData returned, with a link of a market of the batch after the one
\* in which a fetch failed
LoadSurvivesFailedFetchWitness ==
    /\ pc = "done"
    /\ \E k, n \in DOMAIN markets :
          /\ markets[k].response = "error"
          /\ (n - 1) \div 10 > (k - 1) \div 10
          /\ \E l \in DOMAIN links : links[l].target = markets[n].id

\* a node with its category put back to what node creation gave it
Erase(node) == [node EXCEPT !.category = "Other"]

NodeOf(id) == nodes[CHOOSE n \in DOMAIN nodes : nodes[n].id = id]

\* the link that the nodes of link l give when their categories are erased
LinkOfErased(l) ==
    [NewLink(Erase(NodeOf(l.source)), Erase(NodeOf(l.target)), l.correlation) EXCEPT !.keep = l.keep]

\* C18: the links of loadData do not depend on classification.  Whatever
\* categories the nodes were given and whatever the category cache held,
\* the locals of every pair are those computed from the two histories and
\* the nodes with their categories erased, every candidate link and every
\* published link is the link of its nodes with their categories erased,
\* and from the pair scan on no step changes the category cache, the
\* history map or the markets.
LinksIgnoreClassification ==
    /\ [](/\ \A l \in DOMAIN candidateLinks : candidateLinks[l] = LinkOfErased(candidateLinks[l])
          /\ \A l \in DOMAIN links : links[l] = LinkOfErased(links[l])
          /\ (pc \in {"scan", "cap", "done"} /\ loc.exit # "none" =>
                loc = PairBody(Erase(NodeOf(loc.a)), Erase(NodeOf(loc.b)), historyMap[loc.a], historyMap[loc.b])))
    /\ [][(pc \in {"scan", "cap"}) =>
            (categoryCache' = categoryCache /\ historyMap' = historyMap
             /\ markets' = markets /\ nodes' = nodes)]_vars

\* loadData returned links between nodes of different categories, one of
\* them taken from the cache, and the cache has grown
LinksIgnoreClassificationWitness ==
    /\ pc = "done"
    /\ \E l \in DOMAIN links :
          /\ links[l].inefficiency = "High"
          /\ NodeOf(links[l].source).category # NodeOf(links[l].target).category
          /\ "Crypto" \in {NodeOf(links[l].source).category, NodeOf(links[l].target).category}
    /\ DOMAIN categoryCache # {1}

(***************************************************************************)
(* Properties of the backtest page (specification SpecBacktest).           *)
(***************************************************************************)
\* the final data of the last runBacktest call has trades, none of them ok
NoUsableTrades ==
    /\ run.finalData # Null
    /\ \A n \in DOMAIN run.finalData.trades : ~IsOk(run.finalData.trades[n])

\* the last row of the progress log reports an error
ErrorReported ==
    /\ Len(page.progressBody) > 0
    /\ page.progressBody[Len(page.progressBody)].icon = "cross"
    /\ page.retryBtn

FollowerOf(id) == CHOOSE follower \in FollowerPool : follower.id = id

HasEntryPrice(follower) ==
    \E n \in DOMAIN follower.history : follower.history[n].t <= SignalTime

\* the trades of the results on display, as the server listed them
ShownTrades == backtestResults.trades

ReturnsGateNeverRejects ==
    /\ loc.exit # "returns"
    /\ loc.exit \notin {"none", "points"} =>
          /\ loc.points >= MIN_POINTS
          /\ loc.returns = loc.points - 1
          /\ loc.returns >= MIN_RETURNS
          /\ Len(calculateLogReturns(alignByTimestamp(historyMap[loc.a], historyMap[loc.b]).pricesB))
                 = loc.returns

\* a pair with exactly 10 aligned points went through both gates
ReturnsGateNeverRejectsWitness ==
    /\ loc.points = MIN_POINTS
    /\ loc.returns = MIN_RETURNS
    /\ loc.exit \in {"stagnant", "link", "weak"}

\* the published links of node v that are at least as strong as link l
PublishedAtLeastAsStrong(v, l) ==
    {m \in Published(v) :
        ~FLt(FAbs(candidateLinks[m].correlation), FAbs(candidateLinks[l].correlation))}

\* C23: the capper keeps each node's strongest links.  When loadData is
\* done, each endpoint of a candidate link that is not published has at
\* least 10 published links whose |correlation| is greater than or equal to
\* that of the dropped link, and a node with at most 10 candidate links has
\* all of them published.
StrongestLinksKept ==
    pc = "done" =>
        /\ \A l \in DOMAIN candidateLinks :
              ~IsPublished(l) =>
                  /\ Cardinality(PublishedAtLeastAsStrong(candidateLinks[l].source, l)) >= TOP_LINKS
                  /\ Cardinality(PublishedAtLeastAsStrong(candidateLinks[l].target, l)) >= TOP_LINKS
        /\ \A v \in NodeIds :
              Cardinality(Incident(v)) <= TOP_LINKS => \A l \in Incident(v) : IsPublished(l)

\* loadData is done and has dropped a candidate link
StrongestLinksKeptWitness ==
    /\ pc = "done"
    /\ \E l \in DOMAIN candidateLinks :
          /\ ~IsPublished(l)
          /\ Cardinality(Incident(candidateLinks[l].source)) > TOP_LINKS
          /\ Cardinality(Incident(candidateLinks[l].target)) > TOP_LINKS

(***************************************************************************)
(* The published links of two visits (specification SpecOrder).            *)
(***************************************************************************)
\* a link as the unordered pair of its endpoints with its two attributes
LinkSet(ls) ==
    {[pair |-> {ls[k].source, ls[k].target},
      correlation |-> ls[k].correlation,
      inefficiency |-> ls[k].inefficiency] : k \in DOMAIN ls}

\* C27: the set of links published -- as unordered pairs of market ids with
\* their correlation and inefficiency -- is the same whatever the order in
\* which the history fetches of a batch complete: the second visit, whose
\* fetches complete in an order of their own, publishes the set of the
\* first.
PublishedSetIgnoresCompletionOrder ==
    (pc = "done" /\ ret # <<>>) => LinkSet(links) = LinkSet(ret[1])

\* the two visits end, and their node lists are in different orders
PublishedSetIgnoresCompletionOrderWitness ==
    /\ pc = "done"
    /\ ret # <<>>
    /\ Len(links) > 0
    /\ Len(ret[1]) > 0
    /\ links[1].source # ret[1][1].source
(***************************************************************************)
(* The filters of the graph page (specification SpecFilters).              *)
(***************************************************************************)
Enabled(n) == n.category \in state.filters.categories /\ n.volume >= state.filters.minVolume

ShownIds == {state.nodes[k].id : k \in DOMAIN state.nodes}

\* a sequence is what is left of another when elements are taken out
RECURSIVE IsSubsequence(_, _)
IsSubsequence(part, whole) ==
    IF part = <<>> THEN TRUE
    ELSE IF whole = <<>> THEN FALSE
    ELSE IF Head(part) = Head(whole) THEN IsSubsequence(Tail(part), Tail(whole))
    ELSE IsSubsequence(part, Tail(whole))

\* C24: after any sequence of category toggles and slider changes,
\* state.nodes is exactly the nodes of state.allNodes whose category is
\* enabled and whose volume is at least minVolume, state.links is taken from
\* state.allLinks, every link of state.links has both ends in state.nodes,
\* and toggling any category twice gives state.nodes and state.links back.
FiltersConsistent ==
    pc = "graph" =>
        /\ state.nodes = SelectSeq(state.allNodes, Enabled)
        /\ IsSubsequence(state.links, state.allLinks)
        /\ \A k \in DOMAIN state.links :
              /\ EndId(state.links[k].source) \in ShownIds
              /\ EndId(state.links[k].target) \in ShownIds
        /\ \A cat \in CategoriesOf(state.allNodes) :
              /\ toggleCategory(toggleCategory(state, cat), cat).nodes = state.nodes
              /\ toggleCategory(toggleCategory(state, cat), cat).links = state.links

\* a category is off and the slider is up; a link is shown, and a link is
\* hidden although one of its ends is shown
FiltersConsistentWitness ==
    /\ pc = "graph"
    /\ state.filters.categories # CategoriesOf(state.allNodes)
    /\ state.filters.minVolume > 0
    /\ Len(state.links) > 0
    /\ \E k \in DOMAIN state.allLinks :
          /\ ~InSeq(state.allLinks[k], state.links)
          /\ EndId(state.allLinks[k].source) \in ShownIds
(***************************************************************************)
(* The tooltip (specification SpecTooltip).                                *)
(***************************************************************************)
\* C25: hiding the tooltip is cancelled by showing it: while the most recent
\* tooltip call is showTooltip, and the frame of that call has painted, the
\* tooltip is neither hidden nor faded out, whatever timers of earlier
\* hideTooltip calls fire: neither a 100 ms timer nor a nested 200 ms timer
\* hides it.
ShownTooltipStaysVisible ==
    (pc = "tooltip" /\ tooltip.lastCall = "show" /\ tooltip.frames = 0) =>
        (~tooltip.hidden /\ tooltip.opaque)

\* the part of it about the class hidden alone: no nested timer hides a
\* tooltip whose most recent call is showTooltip
ShownTooltipKeepsItsBox ==
    (pc = "tooltip" /\ tooltip.lastCall = "show") => ~tooltip.hidden
(***************************************************************************)
(* The read loop of the streaming clients (specification SpecStream).      *)
(***************************************************************************)
\* the events of the lines of a text, in order: every line that is not
\* blank and parses, the last line included, newline after it or not
RECURSIVE EventsOf(_)
EventsOf(lines) ==
    IF lines = <<>> THEN <<>>
    ELSE IF EventType(Head(lines)) = "none" THEN EventsOf(Tail(lines))
    ELSE <<EventType(Head(lines))>> \o EventsOf(Tail(lines))

SentEvents == EventsOf(Split(stream.sent))

\* C26: however the bytes of the response are cut into chunks, when the
\* stream has ended every line of it that is not blank and parses -- a last
\* line without a newline after it included -- has been dispatched once, in
\* the order sent, lines that do not parse have been skipped, and a done
\* event of the stream has set the final data.
EveryLineDispatched ==
    (pc = "client" /\ stream.pc = "ended") =>
        /\ stream.dispatched = SentEvents
        /\ (\E k \in DOMAIN SentEvents : SentEvents[k] = "done") => stream.finalData

\* the same of the lines that have a newline after them
EveryTerminatedLineDispatched ==
    (pc = "client" /\ stream.pc = "ended") =>
        LET lines == Split(stream.sent)
            terminated == EventsOf(SubSeq(lines, 1, Len(lines) - 1))
        IN  /\ stream.dispatched = terminated
            /\ (\E k \in DOMAIN terminated : terminated[k] = "done") => stream.finalData
(***************************************************************************)
(* The market search box (specification SpecSearch).                       *)
(***************************************************************************)
Answered == {n \in DOMAIN search.requests : search.requests[n].status = "answered"}

\* C28: the result list shown belongs to the latest query: it is the list of
\* the latest request that has been answered (a response to an older query
\* does not replace the results of a newer one), no list is shown while the
\* query has fewer than 2 characters, and there is at most one request for
\* each pause in typing.
SearchShowsLatestQuery ==
    pc = "search" =>
        /\ ~search.hidden => \A n \in Answered : n <= search.shown
        /\ Len(Trim(search.value)) < 2 => search.hidden
        /\ Len(search.requests) <= search.typed

\* the part of it about the number of requests, and the list of the box
\* being that of a request that was answered
OneRequestPerPause ==
    pc = "search" =>
        /\ Len(search.requests) + Len(search.timer) <= search.typed
        /\ search.shown # 0 => search.shown \in Answered
(***************************************************************************)
(* Further properties of the backtest page (specification SpecBacktest).   *)
(***************************************************************************)
LastRow(pg) == pg.progressBody[Len(pg.progressBody)]

\* a step that is a click on the backtest button with a market without
\* token selected: of the steps the page can take then, it is the one that
\* shows the progress log
ClickedWithoutToken ==
    /\ pc = "page"
    /\ page.searchPanel /\ page.searchForm
    /\ selectedMarket # NoMarket
    /\ selectedMarket.clobTokenId = ""
    /\ NoneInFlight
    /\ selectedMarket' = selectedMarket
    /\ page'.script = page.script
    /\ page'.progressLog
    /\ <<page, run>>' # <<page, run>>

\* C22: when the selected leader market has no CLOB token id, a click on the
\* backtest button ends runBacktest at once with a fatal error in the
\* progress log: no request has been sent, there is no stream to read and so
\* no follower result, the results view stays hidden and nothing is stored.
NoTokenStopsBeforeRequest ==
    [][ClickedWithoutToken =>
          (/\ run'.pc = "returned"
           /\ ~run'.posted
           /\ run'.rest = <<>>
           /\ run'.finalData = Null
           /\ LastRow(page').icon = "cross"
           /\ LastRow(page').message = "No CLOB token ID found for this market"
           /\ page'.retryBtn
           /\ ~page'.resultsContainer
           /\ session' = session
           /\ backtestResults' = backtestResults)]_vars

\* runBacktest has returned without a request for a market without token
NoTokenStopsBeforeRequestWitness ==
    /\ pc = "page"
    /\ selectedMarket # NoMarket
    /\ selectedMarket.clobTokenId = ""
    /\ run.pc = "returned"
    /\ ~run.posted
    /\ LastRow(page).message = "No CLOB token ID found for this market"
(***************************************************************************)
(* The results view of main.js (specification SpecResults).                *)
(***************************************************************************)
ResultFollowerOf(id) == CHOOSE follower \in ResultFollowers : follower.id = id

HorizonPastHistory(follower, h) ==
    SignalTime + HorizonTicks(h) > follower.history[Len(follower.history)].t

OkRows == SelectSeq(page.tradesTable, IsOk)

\* the values of the ok trades at horizon h that are numbers
NumbersAt(h) ==
    {backtestResults.trades[n].pnl[h] :
        n \in {k \in DOMAIN backtestResults.trades :
                  /\ IsOk(backtestResults.trades[k])
                  /\ backtestResults.trades[k].pnl[h] # Null}}

\* a horizon past the follower's history has a null P&L; null is shown as
\* N/A, in a cell and as an average; the chart has no bar for it; an average
\* is null when no ok trade has a number, and the number when one has
NullPnlShownAsMissing ==
    (pc = "shown" /\ page.script = "main.js") =>
        /\ \A n \in DOMAIN backtestResults.trades : \A h \in HorizonNames :
              (/\ IsOk(backtestResults.trades[n])
               /\ HorizonPastHistory(ResultFollowerOf(backtestResults.trades[n].id), h))
              => backtestResults.trades[n].pnl[h] = Null
        /\ \A n \in DOMAIN OkRows : \A h \in HorizonNames :
              (OkRows[n].pnl[h] = Null) = (formatPnl(OkRows[n].pnl[h]).text.unit = "N/A")
        /\ \A h \in HorizonNames :
              /\ (page.summary.avg_pnl[h] = Null) = (NumbersAt(h) = {})
              /\ (formatPnl(page.summary.avg_pnl[h]).text.unit = "N/A") = (NumbersAt(h) = {})
              /\ \A v \in NumbersAt(h) : NumbersAt(h) = {v} => page.summary.avg_pnl[h] = v
        /\ \A n \in DOMAIN page.pnlChart : page.pnlChart[n].pnl["1d"] # Null

\* no ok trade without a 1d P&L is listed above an ok trade that has one
NullPnlRankedLast ==
    (pc = "shown" /\ page.script = "main.js") =>
        \A a, b \in DOMAIN OkRows :
            (a < b /\ OkRows[a].pnl["1d"] = Null) => OkRows[b].pnl["1d"] = Null

\* C21: for an ok trade the P&L of a horizon that extends past the
\* follower's history is null, and a null P&L is never taken for a return of
\* 0%: it is displayed as N/A, has no bar in the chart, and is not counted
\* as zero when the trades are averaged or ranked.
NullPnlIsNotZero == NullPnlShownAsMissing /\ NullPnlRankedLast
(***************************************************************************)
(* What sessionStorage holds (specifications SpecBacktest and SpecRuns).   *)
(***************************************************************************)
HasOkTrade(data) == \E n \in DOMAIN data.trades : IsOk(data.trades[n])

\* C30: the item backtestResults of sessionStorage is written only by a run
\* that got its done event and has an ok trade, and New Backtest removes it:
\* whatever runs, failures, clicks and reloads there were, what is stored --
\* and so what restoreFromSession shows -- has at least one ok trade, and
\* results on display after a reload are the stored ones.
StoredResultsAreUsable ==
    pc = "page" =>
        /\ session # Null => HasOkTrade(session)
        /\ (run.pc = "none" /\ page.resultsContainer) =>
              (session # Null /\ backtestResults = session /\ HasOkTrade(backtestResults))
====
